---- MODULE Spec2Model ----
(***************************************************************************)
(* Model of the paginated fetch / chunk / align pipeline that the Ozon ->   *)
(* Google Sheets batch scripts of this repository repeat.                   *)
(*                                                                          *)
(*   SpecFetch : the pagination loops (one action per loop iteration)       *)
(*   SpecChunk : the chunking loops                                         *)
(*   SpecAlign : the key/item alignment of the scripts                      *)
(***************************************************************************)
EXTENDS Integers, Sequences, FiniteSets, TLC

\* Page size of a request (`limit`; 1000 in the scripts, 100 in
\* fetch_bundle_items), scaled down so that short, full and empty pages occur.
Limit == 2
\* Largest number of items the remote API holds for one logical fetch.
MaxItems == 5
\* max_retries of get_all_ozon_data.
MaxRetries == 3
\* time.sleep(65) after a full page, time.sleep(60) after a failed request.
PageDelay == 65
RetryDelay == 60
\* Cap on the requests of one run; no loop of the scripts comes near it.
MaxAttempts == 12

VARIABLES
    \* ---- pagination loops ----
    fn,           \* which loop runs (one per run)
    data,         \* the items the remote API holds, in serving order
    pc,           \* "loop" | "returned" | "raised" ("idle" outside SpecFetch)
    all_items,    \* the accumulator (all_items / all_products / all_data / all_orders / items)
    offset,       \* offset of the next offset-based request
    last_id,      \* continuation token of the next cursor-based request, 0 is ""
    has_next,     \* loop variable of fetch_bundle_items
    retry_count,  \* retry_count of get_all_ozon_data
    result,       \* what the caller receives: the returned list, <<>> when raised
    \* ---- history of the run (not program state) ----
    attempts,     \* requests issued so far
    failures,     \* requests that failed so far
    received,     \* concatenation of the pages received so far
    lastLen,      \* length of the last page received, -1 before the first
    lastHasNext,  \* has_next flag of the last page received
    lastTok,      \* last_id token of the last page received, 0 is ""
    lastFailed,   \* whether the latest request failed
    slept,        \* seconds slept since the latest request (get_all_ozon_data)
    backoffs,     \* number of RetryDelay sleeps so far
    \* ---- chunking loops ----
    cfn,          \* which chunking loop runs
    lst,          \* the list that is split (skus / product_ids)
    chunk_n,      \* the chunk size n (1000 in chunks and 006, batch_size = 50 in 008)
    chunk_i,      \* the loop index i of range(0, len(lst), n)
    batches,      \* the chunks produced so far, each the key list of one request
    stock_items,  \* get_stocks_data: all_items, one item per key answered
    \* ---- alignment ----
    script,       \* which script's alignment ran ("none" before)
    keyCol,       \* worksheet.col_values(k)[4:], the cells of the key column from row 5
    fetched,      \* the fetched items (items / all_items / api_data), in fetch order
    rows,         \* the rows produced: key looked up, sheet row written, cells
    \* ---- credential file ----
    cfgScript,    \* which script reads (1)API.txt
    fileLines,    \* file.readlines(), each line without its line break
    cfgPc,        \* "start" | "configured" | "fatal" | "connected"
    config,       \* the four values read: client id, api key, sheet id, sheet name
    netCalls,     \* calls to the marketplace API or the spreadsheet service so far
    \* ---- spreadsheet writes ----
    shScript,     \* whose write phase runs: "001" | "svc" | "004" | "014"
    shPc,         \* the step the run is about to take, "done" or "raised"
    dataRows,     \* data_row_count, the number of rows written at A5
    rowCount,     \* gridProperties.rowCount of the sheet
    filter,       \* the basic filter of the sheet: "old" | "none" | "new"
    shCalls,      \* history: the write / clear / structural calls issued, with outcome
    filterAtWrite, \* history: the filter in place when the rows were written
    \* ---- cells of one item ----
    cellFn,       \* whose projection runs
    cellItem,     \* the item projected: its fields, each <<>> when absent
    cellRow,      \* the cells produced, <<>> before
    \* ---- orchestrator ----
    scripts,      \* the list of script files of ALL_START / ALL_START_LITE
    orchI,        \* position in the list of the loop variable `script`
    orchPc,       \* "launch" | "wait" | "sleep" | "done" ("idle" outside)
    orchLog,      \* history: launches, exits, skips and sleeps, in order
    orchFailed,   \* history: the entries whose child ended with an error
    \* ---- add_full_range_filter on its own ----
    fltImpl,      \* whose add_full_range_filter runs: "001" | "svc"
    fltColA,      \* len(values[0]) of the read of A:A, 0 when nothing is filled
    fltStartRow,  \* start_row (the parameter of SheetAPIService, 4 in 001)
    fltColumns,   \* gridProperties.columnCount
    fltPc,        \* "call" | "done" | "raised" ("idle" outside)
    fltReq,       \* history: the range of the setBasicFilter request, <<>> before
    \* ---- totals of 007 ----
    tKeyCol,      \* sheet.col_values(2)[4:], the cells of column B from row 5
    tItems,       \* the bundle items received, each with the state of its order
    tPc,          \* "collect" | "update" | "done" | "raised" ("idle" outside)
    sku_counts,   \* sku_counts of collect_sku_data: sku -> status -> quantity
    tSheet,       \* the cells of T, W..AB: <<>> when empty, <<v>> with a value
    \* ---- get_month_ranges of 009 ----
    start_date,   \* the parameters: datetimes [y, m, d, t], t the time of day
    end_date,
    current,      \* the loop variable
    ranges,       \* the list built, each entry <<from, to>>
    gmPc,         \* "loop" | "returned" ("idle" outside)
    \* ---- last-year periods of 010 and 012 ----
    today,        \* datetime.now(Europe/Moscow) of the run, <<>> outside
    periods,      \* 010 main: the periods of EL, EN, EP in order, <<>> before
    months_cols   \* 012 main: the (year, month) of EM, EO, EQ, <<>> before

fetchVars == <<fn, data, pc, all_items, offset, last_id, has_next, retry_count,
               result, attempts, failures, received, lastLen, lastHasNext,
               lastTok, lastFailed, slept, backoffs>>

chunkVars == <<cfn, lst, chunk_n, chunk_i, batches, stock_items>>

alignVars == <<script, keyCol, fetched, rows>>

configVars == <<cfgScript, fileLines, cfgPc, config, netCalls>>

\* The variables of the parts of the scripts modelled further below.
sheetVars == <<shScript, shPc, dataRows, rowCount, filter, shCalls,
               filterAtWrite>>

cellVars == <<cellFn, cellItem, cellRow>>

orchVars == <<scripts, orchI, orchPc, orchLog, orchFailed>>

filterVars == <<fltImpl, fltColA, fltStartRow, fltColumns, fltPc, fltReq>>

totalsVars == <<tKeyCol, tItems, tPc, sku_counts, tSheet>>

monthVars == <<start_date, end_date, current, ranges, gmPc>>

lastYearVars == <<today, periods, months_cols>>

furtherVars == <<filterVars, totalsVars, monthVars, lastYearVars>>

laterVars == <<configVars, sheetVars, cellVars, orchVars, furtherVars>>

vars == <<fetchVars, chunkVars, alignVars, laterVars>>

Min(a, b) == IF a < b THEN a ELSE b

(***************************************************************************)
(* The remote read API: a finite series of pages over `data`.  A request   *)
(* at position pos (an offset, or the position a cursor token stands for)  *)
(* is answered with the next at most Limit items.                          *)
(***************************************************************************)
PageAt(pos) == SubSeq(data, pos + 1, Min(pos + Limit, Len(data)))

\* The has_next flag the API sends with the page served at pos.
HasNextAfter(pos) == pos + Len(PageAt(pos)) < Len(data)

\* The last_id tokens the API may send with the page served at pos: the
\* position after the page while more items remain; on the final page the
\* token may be empty (0) or still name the position reached.
TokensAfter(pos) ==
    IF HasNextAfter(pos) THEN {pos + Len(PageAt(pos))}
    ELSE {0, pos + Len(PageAt(pos))}

\* list.extend
ExtendDropsPage(acc, page) == acc
Extend(acc, page) == acc \o page

OffsetFns == {"get_all_ozon_data", "fetch_data_with_pagination",
              "posting_loop", "get_ozon_orders"}
CursorFns == {"OzonAPIService.get_all_products", "get_all_products",
              "fetch_bundle_items"}
Fns == OffsetFns \cup CursorFns

IdleFetch ==
    /\ fn = "none" /\ data = <<>> /\ pc = "idle" /\ all_items = <<>>
    /\ offset = 0 /\ last_id = 0 /\ has_next = TRUE /\ retry_count = 0
    /\ result = <<>> /\ attempts = 0 /\ failures = 0 /\ received = <<>>
    /\ lastLen = -1 /\ lastHasNext = TRUE /\ lastTok = 0
    /\ lastFailed = FALSE /\ slept = 0 /\ backoffs = 0

IdleChunk ==
    /\ cfn = "none" /\ lst = <<>> /\ chunk_n = 1 /\ chunk_i = 0
    /\ batches = <<>> /\ stock_items = <<>>

IdleAlign ==
    /\ script = "none" /\ keyCol = <<>> /\ fetched = <<>> /\ rows = <<>>

IdleConfig ==
    /\ cfgScript = "none" /\ fileLines = <<>> /\ cfgPc = "idle"
    /\ config = <<>> /\ netCalls = 0

IdleSheet ==
    /\ shScript = "none" /\ shPc = "idle" /\ dataRows = 0 /\ rowCount = 0
    /\ filter = "none" /\ shCalls = <<>> /\ filterAtWrite = "unwritten"

IdleCell ==
    /\ cellFn = "none" /\ cellItem = <<>> /\ cellRow = <<>>

IdleOrch ==
    /\ scripts = <<>> /\ orchI = 0 /\ orchPc = "idle" /\ orchLog = <<>>
    /\ orchFailed = {}

IdleFilter ==
    /\ fltImpl = "none" /\ fltColA = 0 /\ fltStartRow = 4 /\ fltColumns = 1
    /\ fltPc = "idle" /\ fltReq = <<>>

IdleTotals ==
    /\ tKeyCol = <<>> /\ tItems = <<>> /\ tPc = "idle" /\ sku_counts = <<>>
    /\ tSheet = <<>>

IdleMonths ==
    /\ start_date = <<>> /\ end_date = <<>> /\ current = <<>>
    /\ ranges = <<>> /\ gmPc = "idle"

IdleLastYear ==
    /\ today = <<>> /\ periods = <<>> /\ months_cols = <<>>

IdleFurther ==
    /\ IdleFilter
    /\ IdleTotals
    /\ IdleMonths
    /\ IdleLastYear

IdleLater ==
    /\ IdleConfig
    /\ IdleSheet
    /\ IdleCell
    /\ IdleOrch
    /\ IdleFurther

InitFetch ==
    /\ IdleChunk
    /\ IdleAlign
    /\ IdleLater
    /\ fn \in Fns
    /\ \E n \in 0..MaxItems : data = [i \in 1..n |-> i]
    /\ pc = "loop"
    /\ all_items = <<>>
    /\ offset = 0
    /\ last_id = 0
    /\ has_next = TRUE
    /\ retry_count = 0
    /\ result = <<>>
    /\ attempts = 0
    /\ failures = 0
    /\ received = <<>>
    /\ lastLen = -1
    /\ lastHasNext = TRUE
    /\ lastTok = 0
    /\ lastFailed = FALSE
    /\ slept = 0
    /\ backoffs = 0

\* Bookkeeping of one answered request.
Answered(page, hn, tok) ==
    /\ attempts' = attempts + 1
    /\ received' = received \o page
    /\ lastLen' = Len(page)
    /\ lastHasNext' = hn
    /\ lastTok' = tok
    /\ lastFailed' = FALSE
    /\ UNCHANGED failures

\* Bookkeeping of one failed request.
Failed ==
    /\ attempts' = attempts + 1
    /\ failures' = failures + 1
    /\ lastFailed' = TRUE
    /\ UNCHANGED <<received, lastLen, lastHasNext, lastTok>>

\* The loop is about to issue its next request.
Looping == pc = "loop" /\ attempts < MaxAttempts

Return(value) == pc' = "returned" /\ result' = value
Raise == pc' = "raised" /\ result' = <<>>

(***************************************************************************)
(* 005 get_all_ozon_data: offset-based, bounded retries, paced.            *)
(***************************************************************************)
NextOffset005(off, items) == off + Len(items)

\* time.sleep(60) before the request is issued again
NoBackoff(rc) == 0
Backoff(rc) == RetryDelay

\* except ...: continue -- the request is issued again with the offset as
\* the failed request left it
RetryOffsetSkipsPage(off) == off + Limit
RetryOffset(off) == off

RetryNotCounted(rc) == rc
IncRetry(rc) == rc + 1

RetriesExhaustedAtLimit(rc) == rc >= MaxRetries
RetriesExhausted(rc) == rc > MaxRetries

GetAllOzonDataStep ==
    /\ fn = "get_all_ozon_data" /\ Looping
    /\ \E ok \in BOOLEAN :
        IF ok
        THEN LET items == PageAt(offset) IN
             /\ Answered(items, HasNextAfter(offset), 0)
             /\ IF items = <<>>
                THEN /\ Return(all_items)
                     /\ slept' = 0
                     /\ UNCHANGED <<all_items, offset>>
                ELSE /\ all_items' = Extend(all_items, items)
                     /\ offset' = NextOffset005(offset, items)
                     /\ IF Len(items) < Limit
                        THEN Return(all_items') /\ slept' = 0
                        ELSE /\ slept' = PageDelay
                             /\ UNCHANGED <<pc, result>>
             /\ UNCHANGED <<retry_count, backoffs>>
        ELSE /\ Failed
             /\ retry_count' = IncRetry(retry_count)
             /\ IF RetriesExhausted(retry_count')
                THEN Raise /\ slept' = 0 /\ UNCHANGED backoffs
                ELSE /\ slept' = Backoff(retry_count')
                     /\ backoffs' = backoffs + 1
                     /\ UNCHANGED <<pc, result>>
             /\ offset' = RetryOffset(offset)
             /\ UNCHANGED all_items
    /\ UNCHANGED <<fn, data, last_id, has_next>>
    /\ UNCHANGED <<chunkVars, alignVars, laterVars>>

(***************************************************************************)
(* OzonAPIService.get_all_products: cursor-based, raises on a failed       *)
(* request.  Called with its default arguments (all_products=None,         *)
(* last_id="").                                                             *)
(***************************************************************************)
SvcStopIgnoresToken(products, tok) == Len(products) < Limit
SvcStop(products, tok) == Len(products) < Limit \/ tok = 0

SvcGetAllProductsStep ==
    /\ fn = "OzonAPIService.get_all_products" /\ Looping
    /\ \E ok \in BOOLEAN :
        IF ok
        THEN \E tok \in TokensAfter(last_id) :
             LET products == PageAt(last_id) IN
             /\ Answered(products, HasNextAfter(last_id), tok)
             /\ all_items' = Extend(all_items, products)
             /\ IF SvcStop(products, tok)
                THEN Return(all_items') /\ UNCHANGED last_id
                ELSE last_id' = tok /\ UNCHANGED <<pc, result>>
        ELSE /\ Failed
             /\ Raise
             /\ UNCHANGED <<all_items, last_id>>
    /\ UNCHANGED <<fn, data, offset, has_next, retry_count, slept, backoffs>>
    /\ UNCHANGED <<chunkVars, alignVars, laterVars>>

(***************************************************************************)
(* 001 get_all_products: cursor-based, a non-200 status breaks the loop    *)
(* and the function returns what it has.                                    *)
(***************************************************************************)
GetAllProductsStep ==
    /\ fn = "get_all_products" /\ Looping
    /\ \E ok \in BOOLEAN :
        IF ok
        THEN \E tok \in TokensAfter(last_id) :
             LET products == PageAt(last_id) IN
             /\ Answered(products, HasNextAfter(last_id), tok)
             /\ all_items' = Extend(all_items, products)
             /\ IF Len(products) < Limit
                THEN Return(all_items') /\ UNCHANGED last_id
                ELSE /\ last_id' = tok
                     /\ IF tok = 0
                        THEN Return(all_items')
                        ELSE UNCHANGED <<pc, result>>
        ELSE /\ Failed
             /\ Return(all_items)
             /\ UNCHANGED <<all_items, last_id>>
    /\ UNCHANGED <<fn, data, offset, has_next, retry_count, slept, backoffs>>
    /\ UNCHANGED <<chunkVars, alignVars, laterVars>>

(***************************************************************************)
(* 007 fetch_bundle_items: cursor-based, driven by the has_next flag of    *)
(* the response, raise_for_status propagates.                               *)
(***************************************************************************)
FetchBundleItemsStep ==
    /\ fn = "fetch_bundle_items" /\ Looping
    /\ \E ok \in BOOLEAN :
        IF ok
        THEN \E tok \in TokensAfter(last_id) :
             LET page == PageAt(last_id) IN
             /\ Answered(page, HasNextAfter(last_id), tok)
             /\ all_items' = Extend(all_items, page)
             /\ has_next' = HasNextAfter(last_id)
             /\ last_id' = tok
             /\ IF has_next'
                THEN UNCHANGED <<pc, result>>
                ELSE Return(all_items')
        ELSE /\ Failed
             /\ Raise
             /\ UNCHANGED <<all_items, last_id, has_next>>
    /\ UNCHANGED <<fn, data, offset, retry_count, slept, backoffs>>
    /\ UNCHANGED <<chunkVars, alignVars, laterVars>>

(***************************************************************************)
(* Offset-based loops that advance the offset by the page size.            *)
(***************************************************************************)
NextOffsetStuck(off) == off
NextOffsetByLimit(off) == off + Limit

\* 015 fetch_data_with_pagination: any exception breaks the loop.
FetchDataWithPaginationStep ==
    /\ fn = "fetch_data_with_pagination" /\ Looping
    /\ \E ok \in BOOLEAN :
        IF ok
        THEN LET results == PageAt(offset) IN
             /\ Answered(results, HasNextAfter(offset), 0)
             /\ all_items' = Extend(all_items, results)
             /\ IF Len(results) < Limit
                THEN Return(all_items') /\ UNCHANGED offset
                ELSE /\ offset' = NextOffsetByLimit(offset)
                     /\ UNCHANGED <<pc, result>>
        ELSE /\ Failed
             /\ Return(all_items)
             /\ UNCHANGED <<all_items, offset>>
    /\ UNCHANGED <<fn, data, last_id, has_next, retry_count, slept, backoffs>>
    /\ UNCHANGED <<chunkVars, alignVars, laterVars>>

\* 009 main / 010 get_delivered_count_by_sku: the posting loop of one period;
\* get_fbo_posting_list answers None for a failed request.
PostingLoopStep ==
    /\ fn = "posting_loop" /\ Looping
    /\ \E ok \in BOOLEAN :
        IF ok
        THEN LET postings == PageAt(offset) IN
             /\ Answered(postings, HasNextAfter(offset), 0)
             /\ IF postings = <<>>
                THEN Return(all_items) /\ UNCHANGED <<all_items, offset>>
                ELSE /\ all_items' = Extend(all_items, postings)
                     /\ offset' = NextOffsetByLimit(offset)
                     /\ IF Len(postings) < Limit
                        THEN Return(all_items')
                        ELSE UNCHANGED <<pc, result>>
        ELSE /\ Failed
             /\ Return(all_items)
             /\ UNCHANGED <<all_items, offset>>
    /\ UNCHANGED <<fn, data, last_id, has_next, retry_count, slept, backoffs>>
    /\ UNCHANGED <<chunkVars, alignVars, laterVars>>

\* 011 / 012 get_ozon_orders: stops on an empty page or on has_next = false.
GetOzonOrdersStep ==
    /\ fn = "get_ozon_orders" /\ Looping
    /\ \E ok \in BOOLEAN :
        IF ok
        THEN LET postings == PageAt(offset) IN
             /\ Answered(postings, HasNextAfter(offset), 0)
             /\ IF postings = <<>>
                THEN Return(all_items) /\ UNCHANGED <<all_items, offset>>
                ELSE /\ all_items' = Extend(all_items, postings)
                     /\ offset' = NextOffsetByLimit(offset)
                     /\ IF ~HasNextAfter(offset)
                        THEN Return(all_items')
                        ELSE UNCHANGED <<pc, result>>
        ELSE /\ Failed
             /\ Return(all_items)
             /\ UNCHANGED <<all_items, offset>>
    /\ UNCHANGED <<fn, data, last_id, has_next, retry_count, slept, backoffs>>
    /\ UNCHANGED <<chunkVars, alignVars, laterVars>>

NextFetch ==
    \/ GetAllOzonDataStep
    \/ SvcGetAllProductsStep
    \/ GetAllProductsStep
    \/ FetchBundleItemsStep
    \/ FetchDataWithPaginationStep
    \/ PostingLoopStep
    \/ GetOzonOrdersStep

SpecFetch == InitFetch /\ [][NextFetch]_vars

\* Each script is a sequential program: a loop that can take its next
\* iteration takes it.
FairSpecFetch == SpecFetch /\ WF_vars(NextFetch)

Done == pc \in {"returned", "raised"}

(***************************************************************************)
(* Claims about the pagination loops.                                      *)
(***************************************************************************)

\* C1: when every request of a fetch is answered, each pagination loop
\* returns exactly the items of all pages of the series, in page order, none
\* missing and none duplicated.
C1_ReturnsAllPagesInOrder ==
    (pc = "returned" /\ failures = 0) => result = data

C1_Witness ==
    /\ pc = "returned" /\ failures = 0
    /\ attempts >= 3 /\ Len(result) > Limit /\ lastLen = 0

\* C2: every pagination loop terminates, whatever requests fail: it
\* eventually returns or raises, and it never reaches the cap on requests.
C2_EveryLoopTerminates ==
    /\ <>Done
    /\ [](pc = "loop" => attempts < MaxAttempts)

C2_Witness ==
    /\ fn = "get_all_ozon_data" /\ pc = "raised"
    /\ failures = MaxRetries + 1 /\ attempts > failures + 1

\* C8: a failed request on any page ends the fetch (no further request is
\* issued) and the caller still receives the items of the pages received
\* before it.
C8_FailureAbortsAndKeepsPartial ==
    (fn \in {"get_all_products", "OzonAPIService.get_all_products",
             "get_all_ozon_data", "fetch_data_with_pagination"}
     /\ failures > 0)
        => (pc # "loop" /\ result = received)

\* C9 as stated: get_all_ozon_data makes at most 3 failing attempts and
\* surfaces the failure when the third attempt fails.
C9_ThirdFailureSurfaces ==
    fn = "get_all_ozon_data" => (failures >= 3 => pc = "raised")

\* C9 as amended: get_all_ozon_data tolerates MaxRetries = 3 failed requests
\* over the whole fetch, sleeping RetryDelay seconds after each of them and
\* issuing the request again; the fourth failed request raises at once.
C9_FourthFailureSurfaces ==
    fn = "get_all_ozon_data" =>
        /\ failures = retry_count
        /\ failures <= MaxRetries + 1
        /\ backoffs = Min(failures, MaxRetries)
        /\ (pc = "raised" <=> failures = MaxRetries + 1)
        /\ (pc = "loop" /\ slept = RetryDelay => failures \in 1..MaxRetries)

C9_Witness ==
    /\ fn = "get_all_ozon_data" /\ pc = "raised"
    /\ backoffs = MaxRetries /\ Len(received) >= Limit

\* C10 as stated: in offset-based pagination the offset of each request is
\* the number of items received so far, a further request follows only a
\* full page, and (no request failing) the fetch stops exactly on an empty or
\* short page.
C10_StopsOnShortPage ==
    fn \in OffsetFns =>
        /\ (pc = "loop" => offset = Len(received))
        /\ (pc = "loop" /\ lastLen # -1 => lastLen = Limit)
        /\ (pc = "returned" /\ failures = 0 => lastLen < Limit)

\* C10 as amended: the offset of each request is the number of items
\* received so far and a further request follows only a full page; when no
\* request fails, get_all_ozon_data, fetch_data_with_pagination and the
\* posting loops stop exactly on an empty or short page, while get_ozon_orders
\* stops on an empty page or on has_next = false, also after a full page.
C10_StopsOnShortPageOrHasNext ==
    fn \in OffsetFns =>
        /\ (pc = "loop" => offset = Len(received))
        /\ (pc = "loop" /\ lastLen # -1 => lastLen = Limit)
        /\ (pc = "returned" /\ (failures = 0 \/ fn = "get_all_ozon_data") =>
                IF fn = "get_ozon_orders"
                THEN lastLen = 0 \/ ~lastHasNext
                ELSE lastLen < Limit)

C10_Witness ==
    /\ fn = "get_ozon_orders" /\ pc = "returned" /\ failures = 0
    /\ attempts = 2 /\ lastLen = Limit /\ offset = Len(received)

\* C11 as stated: in cursor-based pagination the first request carries the
\* empty token and every later one the token returned by the previous page,
\* a further request follows only a full page with a non-empty token, and (no
\* request failing) the fetch stops exactly when the returned token is empty
\* or the page is short.
C11_StopsOnEmptyTokenOrShortPage ==
    fn \in CursorFns =>
        /\ (pc = "loop" => last_id = lastTok)
        /\ (pc = "loop" /\ attempts > 0 => lastLen = Limit /\ lastTok # 0)
        /\ (pc = "returned" /\ failures = 0 => lastLen < Limit \/ lastTok = 0)

\* C11 as amended: every request carries the token returned by the previous
\* page (the empty one first) and a further request follows only a full page
\* with a non-empty token; when no request fails, both get_all_products stop
\* exactly when the returned token is empty or the page is short, while
\* fetch_bundle_items stops exactly when the response's has_next is false,
\* which also happens after a full page that carries a token.
C11_StopsOnEmptyTokenShortPageOrHasNext ==
    fn \in CursorFns =>
        /\ (pc = "loop" => last_id = lastTok)
        /\ (pc = "loop" /\ attempts > 0 => lastLen = Limit /\ lastTok # 0)
        /\ (pc = "loop" /\ attempts > 0 /\ fn = "fetch_bundle_items" =>
                has_next /\ lastHasNext)
        /\ (pc = "returned" /\ failures = 0 =>
                IF fn = "fetch_bundle_items"
                THEN ~lastHasNext /\ ~has_next
                ELSE lastLen < Limit \/ lastTok = 0)

C11_Witness ==
    /\ fn = "fetch_bundle_items" /\ pc = "returned" /\ failures = 0
    /\ attempts = 2 /\ lastLen = Limit /\ lastTok = Len(data)

\* C19: the requests of get_all_ozon_data are paced: whenever a further
\* request is about to be issued, the fixed delay has been slept since the
\* previous one, 65 seconds after a full page and 60 seconds after a failed
\* request; the first request is the only one that follows no sleep.
C19_RequestsArePaced ==
    (fn = "get_all_ozon_data" /\ pc = "loop") =>
        /\ (attempts = 0 => slept = 0)
        /\ (attempts > 0 /\ ~lastFailed =>
                slept = PageDelay /\ slept = 65 /\ lastLen = Limit)
        /\ (attempts > 0 /\ lastFailed => slept = RetryDelay /\ slept = 60)

C19_Witness ==
    /\ fn = "get_all_ozon_data" /\ pc = "loop"
    /\ attempts >= 3 /\ failures >= 1 /\ Len(received) >= Limit
    /\ ~lastFailed /\ slept = PageDelay

\* C26: a failed request of get_all_ozon_data changes neither the offset nor
\* the accumulated list, so the retry is issued with the same offset; after
\* any interleaving of failures and successes the accumulated list is the
\* concatenation of the pages received, which is the served data up to the
\* offset: no page is duplicated or skipped.
C26_FailureKeepsOffsetAndItems ==
    /\ [](fn = "get_all_ozon_data" =>
            /\ all_items = received
            /\ offset = Len(all_items)
            /\ all_items = SubSeq(data, 1, offset))
    /\ [][(fn = "get_all_ozon_data" /\ failures' > failures) =>
            (offset' = offset /\ all_items' = all_items)]_vars

\* A failure right after a page was received, and not the first failure.
C26_Witness ==
    /\ fn = "get_all_ozon_data" /\ pc = "loop"
    /\ lastFailed /\ failures >= 2
    /\ Len(all_items) = Limit /\ offset = Limit

(***************************************************************************)
(* Chunking: chunks of 014, the list comprehension of 006 and the batch    *)
(* loop of get_stocks_data in 008 all walk range(0, len(lst), n) and slice *)
(* lst[i:i + n].                                                            *)
(***************************************************************************)
\* Largest list that is split, largest chunk size, number of distinct keys.
MaxLen == 4
MaxChunk == 3
MaxKey == 2

RECURSIVE SeqsUpTo(_, _)
SeqsUpTo(S, k) ==
    IF k = 0 THEN {<<>>}
    ELSE LET shorter == SeqsUpTo(S, k - 1) IN
         shorter \cup {Append(q, x) : q \in {r \in shorter : Len(r) = k - 1}, x \in S}

\* Python's l[a:b] for 0 <= a <= b.
SliceDropsLast(l, a, b) == SubSeq(l, a + 1, Min(b - 1, Len(l)))
Slice(l, a, b) == SubSeq(l, a + 1, Min(b, Len(l)))

RECURSIVE Flatten(_)
Flatten(ss) == IF ss = <<>> THEN <<>> ELSE Head(ss) \o Flatten(Tail(ss))

InitChunk ==
    /\ IdleFetch
    /\ IdleAlign
    /\ IdleLater
    /\ cfn \in {"chunks", "get_stocks_data"}
    /\ lst \in SeqsUpTo(1..MaxKey, MaxLen)
    /\ chunk_n \in 1..MaxChunk
    /\ chunk_i = 0
    /\ batches = <<>>
    /\ stock_items = <<>>

\* 014 chunks (a generator consumed by main's for loop) and 006 chunks.
ChunksStep ==
    /\ cfn = "chunks"
    /\ chunk_i < Len(lst)
    /\ batches' = Append(batches, Slice(lst, chunk_i, chunk_i + chunk_n))
    /\ chunk_i' = chunk_i + chunk_n
    /\ UNCHANGED <<cfn, lst, chunk_n, stock_items>>
    /\ UNCHANGED <<fetchVars, alignVars, laterVars>>

\* 008 get_stocks_data: one request per batch; a failed request skips the
\* batch's items and the loop goes on with the next batch.
GetStocksDataStep ==
    /\ cfn = "get_stocks_data"
    /\ chunk_i < Len(lst)
    /\ LET batch == Slice(lst, chunk_i, chunk_i + chunk_n) IN
       /\ batches' = Append(batches, batch)
       /\ \E ok \in BOOLEAN :
            stock_items' = IF ok THEN Extend(stock_items, batch) ELSE stock_items
    /\ chunk_i' = chunk_i + chunk_n
    /\ UNCHANGED <<cfn, lst, chunk_n>>
    /\ UNCHANGED <<fetchVars, alignVars, laterVars>>

NextChunk ==
    \/ ChunksStep
    \/ GetStocksDataStep

SpecChunk == InitChunk /\ [][NextChunk]_vars

\* C5: chunking is lossless and bounded: the chunks produced so far
\* concatenate to the prefix of the list already walked (the whole list once
\* the loop ends), every chunk has between 1 and n elements, and every chunk
\* but the last has exactly n.
C5_ChunksLosslessAndBounded ==
    cfn # "none" =>
        /\ Flatten(batches) = SubSeq(lst, 1, Min(chunk_i, Len(lst)))
        /\ (chunk_i >= Len(lst) => Flatten(batches) = lst)
        /\ \A k \in 1..Len(batches) :
              /\ Len(batches[k]) \in 1..chunk_n
              /\ (k < Len(batches) => Len(batches[k]) = chunk_n)

C5_Witness ==
    /\ cfn = "get_stocks_data" /\ chunk_i >= Len(lst)
    /\ Len(batches) >= 2 /\ chunk_n >= 2
    /\ Len(batches[Len(batches)]) < chunk_n
    /\ Flatten(batches) = lst

(***************************************************************************)
(* Alignment of the fetched items onto the keys of the sheet.              *)
(*                                                                          *)
(* Text is a tuple of characters, so that str.strip and str.isdigit are    *)
(* computed.  A cell written to the sheet is Txt(s) for a string and       *)
(* Num(x) for a number.  An optional value (None or a value) is <<>> or    *)
(* <<value>>.  An item carries its key text `sku` (sku / offer_id /        *)
(* product_id) and one number `val`, the only value field the API sent:    *)
(* idc and return_to_seller_stock_count in 008, idc in 005, position in    *)
(* 014, acquiring in 013; every other field is absent from the item.       *)
(***************************************************************************)
\* Longest key column and longest list of fetched items.
MaxKeys == 3
MaxFetched == 2

SheetCells == {<<>>, <<" ">>, <<"1">>, <<" ", "1">>, <<"2">>}
ItemKeys == {<<"1">>, <<"2">>, <<"1", " ">>}
ItemVals == {0, 1}
Items == [sku : ItemKeys, val : ItemVals]

\* gspread col_values: the cells of the column down to the last non-empty one.
ColValues == {c \in SeqsUpTo(SheetCells, MaxKeys) : c = <<>> \/ c[Len(c)] # <<>>}

Txt(s) == [txt |-> s]
Num(x) == [num |-> x]
Blank == Txt("")
BlankRow(k) == [j \in 1..k |-> Blank]

\* str.strip
RECURSIVE LStrip(_)
LStrip(s) == IF s # <<>> /\ Head(s) = " " THEN LStrip(Tail(s)) ELSE s
RECURSIVE RStrip(_)
RStrip(s) == IF s # <<>> /\ s[Len(s)] = " " THEN RStrip(SubSeq(s, 1, Len(s) - 1)) ELSE s
Strip(s) == RStrip(LStrip(s))

\* str.isdigit and int(str)
IsDigit(s) == s # <<>> /\ \A j \in 1..Len(s) : s[j] \in {"1", "2"}
DigitVal(c) == IF c = "1" THEN 1 ELSE 2
RECURSIVE PyInt(_)
PyInt(s) == IF s = <<>> THEN 0 ELSE 10 * PyInt(SubSeq(s, 1, Len(s) - 1)) + DigitVal(s[Len(s)])

\* dict.get(k) as an optional value; a dict is a function on its keys.
DictGetStale(d, k) ==
    IF k \in DOMAIN d THEN <<d[k]>>
    ELSE IF DOMAIN d # {} THEN <<d[CHOOSE x \in DOMAIN d : TRUE]>> ELSE <<>>
DictGet(d, k) == IF k \in DOMAIN d THEN <<d[k]>> ELSE <<>>

\* d[k] = v
DictSet(d, k, v) == (k :> v) @@ d

\* `if k not in d: d[k] = v`
SetDefaultOverwrites(d, k, v) == (k :> v) @@ d
SetDefault(d, k, v) == IF k \in DOMAIN d THEN d ELSE d @@ (k :> v)

\* [str(c).strip() for c in q]
StripAll(q) == [j \in 1..Len(q) |-> Strip(q[j])]

\* ---- 008 ----
IsBlankCellUntrimmed(c) == c = <<>>
IsBlankCell(c) == Strip(c) = <<>>

GetSkuListFromSheet(col) ==
    StripAll(SelectSeq(col, LAMBDA c : ~IsBlankCell(c)))

ToSheetCellBlanksZero(v) ==
    IF v = <<>> \/ v[1] = 0 THEN Txt("") ELSE Txt(ToString(v[1]))
ToSheetCell(v) == IF v = <<>> THEN Txt("") ELSE Txt(ToString(v[1]))
ToSheetCellBlankIfZero(v) ==
    IF v = <<>> \/ v[1] = 0 THEN Txt("") ELSE Txt(ToString(v[1]))

\* rep_item after the first k items
RECURSIVE RepItem(_, _)
RepItem(its, k) ==
    IF k = 0 THEN <<>>
    ELSE LET d == RepItem(its, k - 1)
             it == its[k]
         IN  IF it.sku = <<>> THEN d ELSE SetDefault(d, it.sku, it)

\* returns_sum after the first k items
RECURSIVE ReturnsSum(_, _)
ReturnsSum(its, k) ==
    IF k = 0 THEN <<>>
    ELSE LET d == ReturnsSum(its, k - 1)
             it == its[k]
         IN  IF it.sku = <<>> THEN d
             ELSE IF it.sku \in DOMAIN d
                  THEN [d EXCEPT ![it.sku] = @ + it.val]
                  ELSE d @@ (it.sku :> it.val)

\* One export row AD..AI: base is rep_item.get(sku, {}) and rts_sum is
\* returns_sum.get(sku).
ExportRow(base, rts_sum) ==
    LET idc == IF base = <<>> THEN <<>> ELSE <<base[1].val>> IN
    << ToSheetCell(<<>>),                  \* AD days_without_sales
       ToSheetCell(idc),                   \* AE idc
       ToSheetCellBlankIfZero(rts_sum),    \* AF returns to seller
       ToSheetCell(<<>>),                  \* AG turnover grade
       ToSheetCell(<<>>),                  \* AH grade description
       Txt("") >>                          \* AI ads

\* build_export_rows(skus, items); export_data_to_sheet writes row j of the
\* result to sheet row 4 + j (range AD5:AI{4 + len(data)}).
BuildExportRows(skus, its) ==
    LET rep_item == RepItem(its, Len(its))
        returns_sum == ReturnsSum(its, Len(its))
    IN  [j \in 1..Len(skus) |->
            [key |-> skus[j], at |-> 4 + j,
             cells |-> ExportRow(DictGet(rep_item, skus[j]),
                                 DictGet(returns_sum, skus[j]))]]

\* ---- 005 ----
\* next((item for item in items if item.get('offer_id') == offer_id), None)
FirstMatch(its, k) ==
    LET m == {j \in 1..Len(its) : its[j].sku = k} IN
    IF m = {} THEN <<>> ELSE <<its[CHOOSE j \in m : \A l \in m : j <= l]>>

\* row_data of one offer_id: ads (AJ), ceil(idc) (AK), translated grade (AL)
RowData(item) ==
    IF item = <<>> THEN <<Txt(""), Txt(""), Txt("")>>
    ELSE <<Txt(""), Num(item[1].val), Txt("")>>

\* update_google_sheets(items, credentials, start_row=5)
UpdateGoogleSheets(offer_ids, its) ==
    [j \in 1..Len(offer_ids) |->
        LET offer_id == Strip(offer_ids[j]) IN
        [key |-> offer_id, at |-> 5 + j - 1,
         cells |-> RowData(FirstMatch(its, offer_id))]]

\* ---- 014 ----
\* sku_to_row after the first k cells: the (sku, row) pairs in dict order.
RECURSIVE SkuToRow(_, _)
SkuToRow(col, k) ==
    IF k = 0 THEN <<>>
    ELSE LET d == SkuToRow(col, k - 1)
             sku == col[k]
             hit == {j \in 1..Len(d) : d[j][1] = sku}
         IN  IF Strip(sku) = <<>> THEN d
             ELSE IF hit = {} THEN Append(d, <<sku, k + 4>>)
             ELSE [j \in 1..Len(d) |-> IF j \in hit THEN <<sku, k + 4>> ELSE d[j]]

\* sku_data after the first k items
RECURSIVE SkuData(_, _)
SkuData(its, k) ==
    IF k = 0 THEN <<>>
    ELSE LET d == SkuData(its, k - 1)
             it == its[k]
         IN  IF it.sku = <<>> THEN d ELSE DictSet(d, Strip(it.sku), it)

\* values of one update FX..GB
Values014(it) ==
    IF it = <<>> THEN BlankRow(5)
    ELSE <<Txt(""), Num(it[1].val), Txt(""), Txt(""), Txt("")>>

\* the updates list of main
Updates014(col, its) ==
    LET sku_to_row == SkuToRow(col, Len(col))
        sku_data == SkuData(its, Len(its))
    IN  [j \in 1..Len(sku_to_row) |->
            [key |-> sku_to_row[j][1], at |-> sku_to_row[j][2],
             cells |-> Values014(DictGet(sku_data, sku_to_row[j][1]))]]

\* ---- 013 ----
\* read_product_ids_from_sheet keeps the cells that are digits; the text of
\* each kept cell, int(pid) being taken at the lookup.
ReadProductIds(col) == SelectSeq(col, LAMBDA c : c # <<>> /\ IsDigit(c))

\* all_prices of get_ozon_prices after the first k items
RECURSIVE AllPrices(_, _)
AllPrices(its, k) ==
    IF k = 0 THEN <<>>
    ELSE DictSet(AllPrices(its, k - 1), PyInt(its[k].sku), its[k])

\* The 24 cells of a found product whose only field is acquiring, with
\* dq1_value = 0.
FoundRow013(it) ==
    << Num(it.val), Num(0), Num(0), Num(0), Num(0),
       Num(0),
       Num(0), Num(0), Num(0), Num(0),
       Num(0),
       Num(it.val), Num(it.val),
       Txt(""), Txt("auto_action off"), Num(0), Num(0), Num(0),
       Num(0), Num(0), Txt("WITHOUT_INDEX label"),
       Txt(""),
       Num(0),
       Num(0) >>

\* prepare_data_for_sheet(data, product_ids, dq1_value); write_data_to_sheet
\* writes row j to sheet row 4 + j.
PrepareDataForSheet(product_ids, its) ==
    LET prices == AllPrices(its, Len(its)) IN
    [j \in 1..Len(product_ids) |->
        LET hit == DictGet(prices, PyInt(product_ids[j])) IN
        [key |-> product_ids[j], at |-> 4 + j,
         cells |-> IF hit # <<>> THEN FoundRow013(hit[1]) ELSE BlankRow(27)]]

InitAlign ==
    /\ IdleFetch
    /\ IdleChunk
    /\ IdleLater
    /\ script = "none"
    /\ keyCol \in ColValues
    /\ fetched \in SeqsUpTo(Items, MaxFetched)
    /\ rows = <<>>

AlignFrame == UNCHANGED <<fetchVars, chunkVars, laterVars, keyCol, fetched>>

\* 008: build_export_rows on the SKUs of get_sku_list_from_sheet.
BuildExportRowsRun ==
    /\ script = "none"
    /\ script' = "build_export_rows"
    /\ rows' = BuildExportRows(GetSkuListFromSheet(keyCol), fetched)
    /\ AlignFrame

\* 005: update_google_sheets.
UpdateGoogleSheetsRun ==
    /\ script = "none"
    /\ script' = "update_google_sheets"
    /\ rows' = UpdateGoogleSheets(keyCol, fetched)
    /\ AlignFrame

\* 014: main, from the SKU column to the updates list.
Main014Run ==
    /\ script = "none"
    /\ script' = "main_014"
    /\ rows' = Updates014(keyCol, fetched)
    /\ AlignFrame

\* 013: prepare_data_for_sheet on the result of get_ozon_prices; the prices
\* API answers with integer product ids.
PrepareDataForSheetRun ==
    /\ script = "none"
    /\ \A j \in 1..Len(fetched) : IsDigit(fetched[j].sku)
    /\ script' = "prepare_data_for_sheet"
    /\ rows' = PrepareDataForSheet(ReadProductIds(keyCol), fetched)
    /\ AlignFrame

NextAlign ==
    \/ BuildExportRowsRun
    \/ UpdateGoogleSheetsRun
    \/ Main014Run
    \/ PrepareDataForSheetRun

SpecAlign == InitAlign /\ [][NextAlign]_vars

(***************************************************************************)
(* Claims about the alignment.                                              *)
(***************************************************************************)
SetMin(S) == CHOOSE x \in S : \A y \in S : x <= y
SetMax(S) == CHOOSE x \in S : \A y \in S : x >= y

RECURSIVE SumVal(_)
SumVal(S) ==
    IF S = {} THEN 0
    ELSE LET j == CHOOSE x \in S : TRUE IN fetched[j].val + SumVal(S \ {j})

\* The trimmed text of the non-blank cells of the key column, in order.
NonBlankKeys == StripAll(SelectSeq(keyCol, LAMBDA c : Strip(c) # <<>>))

\* The fetched items a script holds under the key it looks up: 014 trims the
\* item's key, 013 compares product ids as integers.
Matches(s, key) ==
    {j \in 1..Len(fetched) :
        CASE s = "main_014" -> Strip(fetched[j].sku) = key
          [] s = "prepare_data_for_sheet" -> PyInt(fetched[j].sku) = PyInt(key)
          [] OTHER -> fetched[j].sku = key}

\* The fetched items whose key equals the key once both are trimmed.
TrimmedMatches(key) ==
    {j \in 1..Len(fetched) : Strip(fetched[j].sku) = Strip(key)}

\* The cells a script writes for a key when item j is the one it uses.
CellsFrom(s, j, key) ==
    CASE s = "build_export_rows" ->
            << Blank, Txt(ToString(fetched[j].val)),
               IF SumVal(Matches(s, key)) = 0 THEN Blank
               ELSE Txt(ToString(SumVal(Matches(s, key)))),
               Blank, Blank, Blank >>
      [] s = "update_google_sheets" -> <<Blank, Num(fetched[j].val), Blank>>
      [] s = "main_014" -> <<Blank, Num(fetched[j].val), Blank, Blank, Blank>>
      [] OTHER -> FoundRow013(fetched[j])

DefaultWidth(s) ==
    CASE s = "build_export_rows" -> 6
      [] s = "update_google_sheets" -> 3
      [] s = "main_014" -> 5
      [] OTHER -> 27

\* The cells expected for a key when the first (last) matching item is used.
CellsFirst(s, key) ==
    IF Matches(s, key) = {} THEN BlankRow(DefaultWidth(s))
    ELSE CellsFrom(s, SetMin(Matches(s, key)), key)
CellsLast(s, key) ==
    IF Matches(s, key) = {} THEN BlankRow(DefaultWidth(s))
    ELSE CellsFrom(s, SetMax(Matches(s, key)), key)

\* One row per non-blank key, in key order, each derived for its key.
RowPerNonBlankKey ==
    /\ Len(rows) = Len(NonBlankKeys)
    /\ \A j \in 1..Len(rows) :
          /\ rows[j].key = NonBlankKeys[j]
          /\ rows[j].cells = CellsFirst(script, NonBlankKeys[j])

C4_UnmatchedKeyGetsDefaultRow ==
    script \in {"build_export_rows", "main_014", "prepare_data_for_sheet"} =>
        \A j \in 1..Len(rows) :
            TrimmedMatches(rows[j].key) = {} =>
                rows[j].cells = BlankRow(DefaultWidth(script))

C4_Witness ==
    /\ script = "prepare_data_for_sheet"
    /\ Len(rows) = 2 /\ Len(fetched) > 0
    /\ TrimmedMatches(rows[1].key) = {} /\ rows[1].cells = BlankRow(27)
    /\ TrimmedMatches(rows[2].key) # {} /\ rows[2].cells # BlankRow(27)

\* C6 as stated: when several fetched items carry the same key, every script
\* uses the last one in fetch order.
C6_LastItemWins ==
    script # "none" =>
        \A j \in 1..Len(rows) : rows[j].cells = CellsLast(script, rows[j].key)

\* C6 as amended: build_export_rows (008) and update_google_sheets (005) use
\* the first item in fetch order that carries the key (in 008 the returns
\* cell is the sum over all items of the key); the sku_data map of 014 and
\* get_ozon_prices of 013 use the last one.
C6_FirstOrLastItemWins ==
    script # "none" =>
        \A j \in 1..Len(rows) :
            rows[j].cells =
                IF script \in {"build_export_rows", "update_google_sheets"}
                THEN CellsFirst(script, rows[j].key)
                ELSE CellsLast(script, rows[j].key)

C6_Witness ==
    /\ script = "main_014"
    /\ Len(rows) = 1 /\ Cardinality(Matches(script, rows[1].key)) = 2
    /\ fetched[1].val # fetched[2].val
    /\ rows[1].cells = CellsLast(script, rows[1].key)
    /\ rows[1].cells # CellsFirst(script, rows[1].key)

\* C7: in 014 main and 005 update_google_sheets a key of the sheet that
\* equals a fetched item's key once both are trimmed gets that item's values.
C7_KeysTrimmedOnBothSides ==
    script \in {"main_014", "update_google_sheets"} =>
        \A j \in 1..Len(rows) :
            TrimmedMatches(rows[j].key) # {} =>
                \E k \in TrimmedMatches(rows[j].key) :
                    rows[j].cells = CellsFrom(script, k, rows[j].key)

\* The letters of a column name and the number of the column ("A" is 1).
Alphabet == <<"A", "B", "C", "D", "E", "F", "G", "H", "I", "J", "K", "L", "M",
              "N", "O", "P", "Q", "R", "S", "T", "U", "V", "W", "X", "Y", "Z">>
LetterNumber(c) == CHOOSE k \in 1..Len(Alphabet) : Alphabet[k] = c
RECURSIVE ColumnNumber(_)
ColumnNumber(letters) ==
    IF letters = <<>> THEN 0
    ELSE 26 * ColumnNumber(SubSeq(letters, 1, Len(letters) - 1))
         + LetterNumber(letters[Len(letters)])

\* The number of columns of the range ET5:FQ{...} of write_data_to_sheet.
TargetColumns013 ==
    ColumnNumber(<<"F", "Q">>) - ColumnNumber(<<"E", "T">>) + 1

\* C25: all rows of prepare_data_for_sheet of 013 have the same number of
\* cells, the number of columns of the target range ET:FQ, whether the
\* product was found in the fetched data or not.
C25_RowsFitTargetRange ==
    script = "prepare_data_for_sheet" =>
        \A j \in 1..Len(rows) : Len(rows[j].cells) = TargetColumns013

(***************************************************************************)
(* Writing the rows back: the scripts that write a contiguous block from   *)
(* row 5 (008, 006, 003) and those that address every row (009, 014, 015). *)
(* A row of `rows` carries the sheet row `at` its cells are written to.    *)
(***************************************************************************)
\* ---- 006 ----
\* product_ids = [int(pid) for pid in col_values(1)[4:] if pid.strip().isdigit()];
\* the stripped text of each kept cell, int and str being taken at the lookup.
ProductIds006(col) ==
    StripAll(SelectSeq(col, LAMBDA c : IsDigit(Strip(c))))

\* stock_dict = {str(item['product_id']): item['stocks'] ...} after k items
RECURSIVE StockDict(_, _)
StockDict(its, k) ==
    IF k = 0 THEN <<>>
    ELSE DictSet(StockDict(its, k - 1), PyInt(its[k].sku), its[k])

\* update_google_sheet(data, product_ids): rows_fbo and rows_fbs, written
\* to R5:R{4 + len} and S5:S{4 + len}; val is the present stock of type fbo.
UpdateGoogleSheet006(product_ids, its) ==
    LET stock_dict == StockDict(its, Len(its)) IN
    [j \in 1..Len(product_ids) |->
        LET stocks == DictGet(stock_dict, PyInt(product_ids[j])) IN
        [key |-> product_ids[j], at |-> 5 + j - 1,
         cells |-> <<Num(IF stocks = <<>> THEN 0 ELSE stocks[1].val),
                     Num(0)>>]]

\* ---- 003 ----
\* sku_values = [row[0] for row in skus_data if row and row[0]]
SkuValues003(col) == SelectSeq(col, LAMBDA c : c # <<>>)

\* sku_to_rating of one batch after the first k products
RECURSIVE SkuToRating(_, _)
SkuToRating(its, k) ==
    IF k = 0 THEN <<>>
    ELSE DictSet(SkuToRating(its, k - 1), its[k].sku, its[k].val)

\* ratings, written to H5:H{4 + len(ratings)}
Ratings003(sku_values, its) ==
    LET sku_to_rating == SkuToRating(its, Len(its)) IN
    [j \in 1..Len(sku_values) |->
        LET hit == DictGet(sku_to_rating, sku_values[j]) IN
        [key |-> sku_values[j], at |-> 5 + j - 1,
         cells |-> IF hit # <<>> THEN <<Num(hit[1])>>
                   ELSE <<Txt("rating error")>>]]

\* ---- 009 ----
\* order_counts[sku][date] of prepare_data_for_sheet for one date
RECURSIVE OrderCount(_, _, _)
OrderCount(its, k, sku) ==
    IF k = 0 THEN 0
    ELSE OrderCount(its, k - 1, sku) + (IF its[k].sku = sku THEN its[k].val ELSE 0)

\* for idx, sku in enumerate(skus, start=5): if not sku: continue
RECURSIVE DataToWrite009(_, _, _)
DataToWrite009(col, its, k) ==
    IF k = 0 THEN <<>>
    ELSE LET d == DataToWrite009(col, its, k - 1) IN
         IF col[k] = <<>> THEN d
         ELSE Append(d, [key |-> col[k], at |-> k + 4,
                         cells |-> <<Num(OrderCount(its, Len(its), col[k]))>>])

\* ---- 015 ----
\* sku_dict = {sku: idx+5 for idx, sku in enumerate(sku_list) if sku} after
\* the first k cells: the (sku, row) pairs in dict order.
RECURSIVE SkuDict015(_, _)
SkuDict015(col, k) ==
    IF k = 0 THEN <<>>
    ELSE LET d == SkuDict015(col, k - 1)
             sku == col[k]
             hit == {j \in 1..Len(d) : d[j][1] = sku}
         IN  IF sku = <<>> THEN d
             ELSE IF hit = {} THEN Append(d, <<sku, k + 5 - 1>>)
             ELSE [j \in 1..Len(d) |-> IF j \in hit THEN <<sku, k + 5 - 1>> ELSE d[j]]

\* sku_metrics after the first k items
RECURSIVE SkuMetrics(_, _)
SkuMetrics(its, k) ==
    IF k = 0 THEN <<>>
    ELSE DictSet(SkuMetrics(its, k - 1), its[k].sku, its[k])

\* The metrics of column_metric_map in the order of its columns O, P, Q,
\* GH..HC.
ColumnMetrics015 ==
    <<"ordered_units", "revenue", "position_category", "hits_view_search",
      "hits_view_pdp", "hits_tocart_pdp", "ordered_units", "revenue",
      "position_category", "hits_view_search", "ordered_units",
      "hits_view_search", "session_view_search", "session_view_pdp",
      "conv_tocart_pdp", "ordered_units", "session_view_pdp",
      "conv_tocart_pdp", "ordered_units", "revenue", "hits_view",
      "session_view", "returns", "hits_tocart_search", "conv_tocart_search">>

\* A cell given as None.
NoneCell == [none |-> TRUE]

\* row_values of one SKU; val is the metric ordered_units, the only one sent.
RowValues015(hit) ==
    [c \in 1..Len(ColumnMetrics015) |->
        IF hit = <<>> THEN Txt("")
        ELSE IF ColumnMetrics015[c] = "ordered_units" THEN Num(hit[1].val)
        ELSE NoneCell]

\* updates: one entry per key of sku_dict; batch_updates splits each into
\* one cell update per column of the same row.
Updates015(col, its) ==
    LET sku_dict == SkuDict015(col, Len(col))
        sku_metrics == SkuMetrics(its, Len(its))
    IN  [j \in 1..Len(sku_dict) |->
            [key |-> sku_dict[j][1], at |-> sku_dict[j][2],
             cells |-> RowValues015(DictGet(sku_metrics, sku_dict[j][1]))]]

\* 015: main, from the SKU column to the updates list.
Main015Run ==
    /\ script = "none"
    /\ script' = "main_015"
    /\ rows' = Updates015(keyCol, fetched)
    /\ AlignFrame

\* 006: the module body; update_google_sheet is only called with items.
UpdateGoogleSheet006Run ==
    /\ script = "none"
    /\ \A j \in 1..Len(fetched) : IsDigit(fetched[j].sku)
    /\ script' = "update_google_sheet"
    /\ rows' = IF fetched = <<>> THEN <<>>
               ELSE UpdateGoogleSheet006(ProductIds006(keyCol), fetched)
    /\ AlignFrame

\* 003: main, one batch of at most 100 SKUs.
Main003Run ==
    /\ script = "none"
    /\ script' = "main_003"
    /\ rows' = Ratings003(SkuValues003(keyCol), fetched)
    /\ AlignFrame

\* 009: main, the per-day block AQ:BR; nothing is written without postings.
Main009Run ==
    /\ script = "none"
    /\ script' = "main_009"
    /\ rows' = IF fetched = <<>> THEN <<>>
               ELSE DataToWrite009(keyCol, fetched, Len(keyCol))
    /\ AlignFrame

NextWriteBack ==
    \/ BuildExportRowsRun
    \/ UpdateGoogleSheet006Run
    \/ Main003Run
    \/ Main009Run
    \/ Main014Run
    \/ Main015Run

SpecWriteBack == InitAlign /\ [][NextWriteBack]_vars

\* Whether a script takes cell c of the key column for a key.
IsKeyCell(s, c) ==
    CASE s = "build_export_rows" -> Strip(c) # <<>>
      [] s = "update_google_sheet" -> IsDigit(Strip(c))
      [] OTHER -> c # <<>>

\* The positions in the key column of the cells a script takes for keys.
KeyPositions(s) == {k \in 1..Len(keyCol) : IsKeyCell(s, keyCol[k])}

\* The position of the j-th key cell.
KeyPosition(s, j) ==
    CHOOSE k \in KeyPositions(s) :
        Cardinality({l \in KeyPositions(s) : l <= k}) = j

\* C24: every row written back lands on the sheet row of the key it was
\* derived from, also when blank or non-numeric cells stand between valid
\* keys: the j-th row written is the one of the j-th key, and it is written
\* to the sheet row of that key's cell (006 from R5, 003 from H5, 008 from
\* AD5, 009 per key).
C24_RowLandsOnItsKeyRow ==
    script \in {"build_export_rows", "update_google_sheet", "main_003",
                "main_009"} =>
        \A j \in 1..Len(rows) :
            /\ j <= Cardinality(KeyPositions(script))
            /\ rows[j].at = 4 + KeyPosition(script, j)

\* The positions of the non-blank cells of the key column.
NonBlankPositions == {k \in 1..Len(keyCol) : Strip(keyCol[k]) # <<>>}

\* C27: in 014 and 015 every non-blank cell of the key column gets its own
\* row update: there are as many row updates as non-blank key cells and each
\* targets the sheet row of its cell, also when the same SKU stands in
\* several rows.
C27_RowUpdatePerKeyCell ==
    script \in {"main_014", "main_015"} =>
        /\ Len(rows) = Cardinality(NonBlankPositions)
        /\ {rows[j].at : j \in 1..Len(rows)} =
              {4 + k : k \in NonBlankPositions}

(***************************************************************************)
(* The credential file (1)API.txt: read_api_config of 014, 007 and 015,    *)
(* read_api_credentials of 006 and of 002, and the first call each script  *)
(* makes once it holds its configuration.                                   *)
(***************************************************************************)
\* Largest number of lines of the file.
MaxLines == 5

\* The text of one line: empty, blank, a value, a value with blanks around.
LineTexts == {<<>>, <<" ">>, <<"1">>, <<" ", "1", " ">>}

ConfigScripts == {"014", "007", "015", "006", "002"}

\* The frame of the steps that read the file.
ConfigFrame ==
    UNCHANGED <<fetchVars, chunkVars, alignVars, sheetVars, cellVars,
                orchVars, furtherVars, cfgScript, fileLines>>

\* 014 / 007 / 015: every line is stripped, the file is refused when it has
\* fewer than four lines.  <<>> stands for the ValueError.
ReadApiConfig(ls) ==
    LET lines == StripAll(ls) IN
    IF Len(lines) < 4 THEN <<>> ELSE <<SubSeq(lines, 1, 4)>>

\* 006: lines[0] .. lines[3] are stripped; <<>> stands for the IndexError
\* of a file with fewer than four lines.
ReadApiCredentials006(ls) ==
    IF Len(ls) < 4 THEN <<>> ELSE <<StripAll(SubSeq(ls, 1, 4))>>

\* 002: blank lines are dropped before the lines are counted.
ReadApiCredentials002(ls) ==
    LET lines == SelectSeq(StripAll(ls), LAMBDA l : l # <<>>) IN
    IF Len(lines) >= 4 THEN <<SubSeq(lines, 1, 4)>> ELSE <<>>

\* The caller: an exception of the reader ends the run (return of main,
\* exit(), or the uncaught IndexError of 006).
Configure(read) ==
    /\ cfgPc = "start"
    /\ IF read = <<>>
       THEN cfgPc' = "fatal" /\ config' = <<>>
       ELSE cfgPc' = "configured" /\ config' = read[1]
    /\ UNCHANGED netCalls
    /\ ConfigFrame

InitConfig ==
    /\ IdleFetch
    /\ IdleChunk
    /\ IdleAlign
    /\ IdleSheet
    /\ IdleCell
    /\ IdleOrch
    /\ IdleFurther
    /\ cfgScript \in ConfigScripts
    /\ fileLines \in SeqsUpTo(LineTexts, MaxLines)
    /\ cfgPc = "start"
    /\ config = <<>>
    /\ netCalls = 0

ReadApiConfigStep ==
    /\ cfgScript \in {"014", "007", "015"}
    /\ Configure(ReadApiConfig(fileLines))

ReadApiCredentials006Step ==
    /\ cfgScript = "006"
    /\ Configure(ReadApiCredentials006(fileLines))

ReadApiCredentials002Step ==
    /\ cfgScript = "002"
    /\ Configure(ReadApiCredentials002(fileLines))

\* With its configuration the script opens the spreadsheet (gspread
\* authorize / open_by_key), its first network call.
OpenSpreadsheetStep ==
    /\ cfgPc = "configured"
    /\ cfgPc' = "connected"
    /\ netCalls' = netCalls + 1
    /\ UNCHANGED config
    /\ ConfigFrame

NextConfig ==
    \/ ReadApiConfigStep
    \/ ReadApiCredentials006Step
    \/ ReadApiCredentials002Step
    \/ OpenSpreadsheetStep

SpecConfig == InitConfig /\ [][NextConfig]_vars

\* The number of non-blank lines of the file.
NonBlankLines == Len(SelectSeq(fileLines, LAMBDA l : Strip(l) # <<>>))

\* C12: a credential file with fewer than four non-blank lines is fatal in
\* every script: the run ends with the configuration error and no call to
\* the marketplace API or the spreadsheet service is ever issued.
C12_FewerThanFourNonBlankLinesIsFatal ==
    (cfgScript \in ConfigScripts /\ NonBlankLines < 4) =>
        /\ netCalls = 0
        /\ cfgPc \in {"start", "fatal"}

(***************************************************************************)
(* The write phase: save_products_to_google_sheets of 001 (followed by     *)
(* write_update_date) and of SheetAPIService, the per-column writes of 004 *)
(* main (followed by update_totals_and_date) and the batch_update of 014.  *)
(* One action per helper; each issues at most one write, clear or          *)
(* structural call, which the service may refuse.                          *)
(***************************************************************************)
\* Largest number of rows written, largest sheet.
MaxDataRows == 2
MaxSheetRows == 8
\* The rows above the data: required_rows + 4, data_row_count + 5, "A5".
HeaderRows == 4

SheetScripts == {"001", "svc", "004", "014"}

FirstStep(sc) ==
    CASE sc \in {"001", "svc"} -> "remove_filter"
      [] sc = "004" -> "price"
      [] sc = "014" -> "batch_update"

\* The issued call is appended to the history.
Call(name, ok) == shCalls' = Append(shCalls, [call |-> name, ok |-> ok])

\* Where a helper of save_products_to_google_sheets leaves the run: the
\* helpers of SheetAPIService raise RuntimeError, those of 001 print the
\* error and return, so that save_products_to_google_sheets goes on.
AfterHelper(ok, next) ==
    IF ok \/ shScript = "001" THEN next ELSE "raised"

\* Where the write of the rows leaves the run: in 001 the exception reaches
\* the except of save_products_to_google_sheets, and __main__ goes on with
\* write_update_date.
AfterWrite(ok) ==
    IF ok THEN "adjust"
    ELSE IF shScript = "001" THEN "write_date" ELSE "raised"

SheetFrame == UNCHANGED <<fetchVars, chunkVars, alignVars, configVars,
                          cellVars, orchVars, furtherVars, shScript,
                          dataRows>>

InitSheet ==
    /\ IdleFetch
    /\ IdleChunk
    /\ IdleAlign
    /\ IdleConfig
    /\ IdleCell
    /\ IdleOrch
    /\ IdleFurther
    /\ shScript \in SheetScripts
    /\ shPc = FirstStep(shScript)
    /\ dataRows \in 1..MaxDataRows
    /\ rowCount \in HeaderRows..MaxSheetRows
    /\ filter \in {"old", "none"}
    /\ shCalls = <<>>
    /\ filterAtWrite = "unwritten"

RemoveFilterStep ==
    /\ shPc = "remove_filter"
    /\ \E ok \in BOOLEAN :
        /\ Call("clearBasicFilter", ok)
        /\ filter' = IF ok THEN "none" ELSE filter
        /\ shPc' = AfterHelper(ok, "clear_range")
    /\ UNCHANGED <<rowCount, filterAtWrite>>
    /\ SheetFrame

ClearGoogleSheetRangeStep ==
    /\ shPc = "clear_range"
    /\ \E ok \in BOOLEAN :
        /\ Call("batchClear", ok)
        /\ shPc' = AfterHelper(ok, "write")
    /\ UNCHANGED <<rowCount, filter, filterAtWrite>>
    /\ SheetFrame

WriteRowsStep ==
    /\ shPc = "write"
    /\ \E ok \in BOOLEAN :
        /\ Call("update A5", ok)
        /\ shPc' = AfterWrite(ok)
    /\ filterAtWrite' = filter
    /\ UNCHANGED <<rowCount, filter>>
    /\ SheetFrame

AdjustSheetSizeStep ==
    /\ shPc = "adjust"
    /\ IF rowCount < dataRows + HeaderRows
       THEN \E ok \in BOOLEAN :
            /\ Call("appendDimension", ok)
            /\ rowCount' = IF ok THEN dataRows + HeaderRows ELSE rowCount
            /\ shPc' = AfterHelper(ok, "clear_excess")
       ELSE /\ shPc' = "clear_excess"
            /\ UNCHANGED <<shCalls, rowCount>>
    /\ UNCHANGED <<filter, filterAtWrite>>
    /\ SheetFrame

ClearExcessRowsStep ==
    /\ shPc = "clear_excess"
    /\ \E ok \in BOOLEAN :
        /\ Call("clear", ok)
        /\ shPc' = AfterHelper(ok, "remove_empty")
    /\ UNCHANGED <<rowCount, filter, filterAtWrite>>
    /\ SheetFrame

RemoveEmptyRowsAfterDataStep ==
    /\ shPc = "remove_empty"
    /\ LET start_delete_row == dataRows + HeaderRows + 1 IN
       IF start_delete_row < rowCount
       THEN \E ok \in BOOLEAN :
            /\ Call("deleteDimension", ok)
            /\ rowCount' = IF ok THEN start_delete_row - 1 ELSE rowCount
            /\ shPc' = AfterHelper(ok, "add_filter")
       ELSE /\ shPc' = "add_filter"
            /\ UNCHANGED <<shCalls, rowCount>>
    /\ UNCHANGED <<filter, filterAtWrite>>
    /\ SheetFrame

AddFullRangeFilterStep ==
    /\ shPc = "add_filter"
    /\ \E ok \in BOOLEAN :
        /\ Call("setBasicFilter", ok)
        /\ filter' = IF ok THEN "new" ELSE filter
        /\ shPc' = IF shScript = "001" THEN "write_date"
                   ELSE IF ok THEN "done" ELSE "raised"
    /\ UNCHANGED <<rowCount, filterAtWrite>>
    /\ SheetFrame

\* 001 __main__: write_update_date follows save_products_to_google_sheets.
WriteUpdateDateStep ==
    /\ shPc = "write_date"
    /\ \E ok \in BOOLEAN : Call("update H1", ok)
    /\ shPc' = "done"
    /\ UNCHANGED <<rowCount, filter, filterAtWrite>>
    /\ SheetFrame

\* 004 main: the four column writes, a failed one is logged and skipped.
Columns004 == <<"price", "additional1", "additional2", "additional3">>

WriteColumnStep ==
    /\ \E c \in 1..Len(Columns004) :
        /\ shPc = Columns004[c]
        /\ \E ok \in BOOLEAN : Call("update " \o Columns004[c], ok)
        /\ shPc' = IF c < Len(Columns004) THEN Columns004[c + 1] ELSE "totals"
    /\ UNCHANGED <<rowCount, filter, filterAtWrite>>
    /\ SheetFrame

\* 004 update_totals_and_date: its writes stop at the first one refused.
UpdateTotalsAndDateStep ==
    /\ shPc = "totals"
    /\ \E ok \in BOOLEAN : Call("update totals", ok)
    /\ shPc' = "done"
    /\ UNCHANGED <<rowCount, filter, filterAtWrite>>
    /\ SheetFrame

\* 014 main: the one batch_update that ends the run.
BatchUpdateStep ==
    /\ shPc = "batch_update"
    /\ \E ok \in BOOLEAN : Call("batch_update", ok)
    /\ shPc' = "done"
    /\ UNCHANGED <<rowCount, filter, filterAtWrite>>
    /\ SheetFrame

NextSheet ==
    \/ RemoveFilterStep
    \/ ClearGoogleSheetRangeStep
    \/ WriteRowsStep
    \/ AdjustSheetSizeStep
    \/ ClearExcessRowsStep
    \/ RemoveEmptyRowsAfterDataStep
    \/ AddFullRangeFilterStep
    \/ WriteUpdateDateStep
    \/ WriteColumnStep
    \/ UpdateTotalsAndDateStep
    \/ BatchUpdateStep

SpecSheet == InitSheet /\ [][NextSheet]_vars

\* C13: a failed write, clear or structural call is fatal and is not
\* retried: no spreadsheet call is issued after a failed one, so only the
\* latest call of a run can be a failed one.
C13_WriteFailureIsFatal ==
    shScript \in SheetScripts =>
        \A j \in 1..(Len(shCalls) - 1) : shCalls[j].ok

\* The calls of save_products_to_google_sheets in the order of its steps.
SaveOrder == <<"clearBasicFilter", "batchClear", "update A5",
               "appendDimension", "clear", "deleteDimension",
               "setBasicFilter", "update H1">>

Rank(name) == CHOOSE r \in 1..Len(SaveOrder) : SaveOrder[r] = name

Issued(name) == \E j \in 1..Len(shCalls) : shCalls[j].call = name

\* C20: save_products_to_google_sheets issues its calls in the fixed order
\* remove filter, clear ranges, write rows, grow, clear below, delete rows,
\* set filter; the filter is set only after the rows were written, and the
\* rows are never written while the old filter is still in place.
C20_FilterOffBeforeRowsAreWritten ==
    shScript \in {"001", "svc"} =>
        /\ \A j, k \in 1..Len(shCalls) :
              j < k => Rank(shCalls[j].call) < Rank(shCalls[k].call)
        /\ Issued("setBasicFilter") =>
              Issued("update A5") /\ shPc \in {"write_date", "done", "raised"}
        /\ filterAtWrite # "old"

\* The run went through adjust_sheet_size and remove_empty_rows_after_data
\* and no call of either was refused.
Resized ==
    /\ shScript \in {"001", "svc"}
    /\ shPc \in {"add_filter", "write_date", "done"}
    /\ \E j \in 1..Len(shCalls) :
          shCalls[j].call = "update A5" /\ shCalls[j].ok
    /\ \A j \in 1..Len(shCalls) :
          shCalls[j].call \in {"appendDimension", "deleteDimension"}
              => shCalls[j].ok

\* C21: after adjust_sheet_size followed by remove_empty_rows_after_data for
\* data_row_count rows the sheet has exactly data_row_count + 4 rows,
\* whatever its row count was before: rows are appended when there are
\* fewer, and every row from row data_row_count + 5 on is deleted.
C21_ExactlyDataRowsPlusFour ==
    Resized => rowCount = dataRows + HeaderRows

(***************************************************************************)
(* The cells of one item: the enum translations, the zero-as-blank rule,   *)
(* the ceilings and the ads rate of build_export_rows (008),               *)
(* update_google_sheets (005), prepare_data_for_sheet (013) and            *)
(* process_value (004).                                                     *)
(*                                                                          *)
(* A number of the API is held in thousandths (2.1 is 2100), so that       *)
(* int(), math.ceil and round(x, 2) are computed on integers.              *)
(***************************************************************************)
Milli == 1000

\* ---- the mapping tables ----
TURNOVER_GRADE_TRANSLATION ==
    [c \in {"GRADES_NONE", "GRADES_NOSALES", "GRADES_GREEN", "GRADES_YELLOW",
            "GRADES_RED", "GRADES_CRITICAL", ""} |->
        CASE c = "GRADES_NONE" -> "ozhidayutsya postavki"
          [] c = "GRADES_NOSALES" -> "net prodazh"
          [] c = "GRADES_GREEN" -> "horoshiy"
          [] c = "GRADES_YELLOW" -> "sredniy"
          [] c = "GRADES_RED" -> "plohoy"
          [] c = "GRADES_CRITICAL" -> "kritich."
          [] c = "" -> ""]

\* The codes of TURNOVER_GRADE_RU and of TURNOVER_GRADE_DESCRIPTIONS.
TurnoverGradeCodes008 ==
    {"TURNOVER_GRADE_NONE", "DEFICIT", "POPULAR", "ACTUAL", "SURPLUS",
     "NO_SALES", "WAS_NO_SALES", "RESTRICTED_NO_SALES", "COLLECTING_DATA",
     "WAITING_FOR_SUPPLY", "WAS_DEFICIT", "WAS_POPULAR", "WAS_ACTUAL",
     "WAS_SURPLUS", "UNSPECIFIED"}

\* Every code has a non-empty short name.
TURNOVER_GRADE_RU ==
    [c \in TurnoverGradeCodes008 |-> "ru " \o c]

\* Every code has a description, that of TURNOVER_GRADE_NONE is empty.
TURNOVER_GRADE_DESCRIPTIONS ==
    [c \in TurnoverGradeCodes008 |->
        IF c = "TURNOVER_GRADE_NONE" THEN "" ELSE "description " \o c]

color_index_mapping ==
    [c \in {"WITHOUT_INDEX", "GREEN", "YELLOW", "RED"} |->
        CASE c = "WITHOUT_INDEX" -> "NET"
          [] c = "GREEN" -> "HOROSHIY"
          [] c = "YELLOW" -> "SREDNIY"
          [] c = "RED" -> "PLOHOY"]

\* dict.get(key, default)
GetOr(d, k, default) == IF k \in DOMAIN d THEN d[k] ELSE default

\* 005: TURNOVER_GRADE_TRANSLATION.get(item.get('turnover_grade', ''), '');
\* a code that is None is no key of the table.
TranslateGrade005(grade) ==
    IF grade = <<>> THEN Txt("")
    ELSE Txt(GetOr(TURNOVER_GRADE_TRANSLATION, grade[1], ""))

\* 008: TURNOVER_GRADE_RU.get(grade) if grade else None
TurnoverGradeRu(grade) ==
    IF grade = <<>> \/ grade = <<"">> THEN <<>>
    ELSE DictGet(TURNOVER_GRADE_RU, grade[1])

\* 008: TURNOVER_GRADE_DESCRIPTIONS.get(grade) if grade else None
DescribeTurnoverGrade(grade) ==
    IF grade = <<>> \/ grade = <<"">> THEN <<>>
    ELSE DictGet(TURNOVER_GRADE_DESCRIPTIONS, grade[1])

\* 008 _to_sheet_cell of a string
TextCell(v) == IF v = <<>> THEN Txt("") ELSE Txt(v[1])

\* 013: color_index_mapping.get(price_indexes.get('color_index',
\* 'WITHOUT_INDEX'), 'WITHOUT_INDEX')
ColorIndex013(code) ==
    Txt(GetOr(color_index_mapping,
              IF code = <<>> THEN "WITHOUT_INDEX" ELSE code[1],
              "WITHOUT_INDEX"))

\* ---- numbers ----
\* int(v): truncation toward zero
TruncToInt(m) == IF m >= 0 THEN m \div Milli ELSE -((-m) \div Milli)

\* 008 _as_int_or_none
AsIntOrNone(v) == IF v = <<>> THEN <<>> ELSE <<TruncToInt(v[1])>>

\* math.ceil(p / q) for q > 0
CeilDivNearest(p, q) == (2 * p + q) \div (2 * q)
CeilDiv(p, q) == -((-p) \div q)

\* math.ceil of a number held in thousandths
Ceil(m) == CeilDiv(m, Milli)

\* 013 safe_float: None is 0.0
SafeFloat(v) == IF v = <<>> THEN 0 ELSE v[1]

\* 005: math.ceil(item['idc']) if isinstance(item.get('idc'), (int, float))
\* else ''
IdcCell005(idc) == IF idc = <<>> THEN Txt("") ELSE Num(Ceil(idc[1]))

\* 013: acquiring = math.ceil(safe_float(item.get('acquiring')))
Acquiring013(v) == Ceil(SafeFloat(v))

\* 013: dr_value = math.ceil((marketing_seller_price * sales_percent_fbo)
\* / 100) if marketing_seller_price and sales_percent_fbo else 0
DrValue013(msp, pct) ==
    LET price == SafeFloat(msp)
        percent == SafeFloat(pct)
    IN  IF price # 0 /\ percent # 0
        THEN CeilDiv(price * percent, Milli * Milli * 100)
        ELSE 0

\* 004 process_value of a number or of an empty cell: None for an empty
\* cell and for zero.
ProcessValue(v) ==
    IF v = <<>> THEN <<>>
    ELSE IF v[1] = 0 THEN <<>> ELSE <<Ceil(v[1])>>

\* round(x, 2) in hundredths.  A value that lies half-way between two
\* hundredths in decimal is a binary float just above or just below it, so
\* either neighbour can be the result.
Round2(m) ==
    LET lo == m \div 10
        r == m % 10
    IN  IF r < 5 THEN {lo}
        ELSE IF r > 5 THEN {lo + 1}
        ELSE {lo, lo + 1}

\* f"{rounded:.2f}" of a number of hundredths
FormatTwoDecimals(h) ==
    LET a == IF h < 0 THEN -h ELSE h IN
    (IF h < 0 THEN "-" ELSE "") \o ToString(a \div 100) \o "."
        \o ToString((a % 100) \div 10) \o ToString(a % 10)

\* "0" if rounded == 0 else f"{rounded:.2f}"
AdsTextAlwaysTwoDecimals(h) == FormatTwoDecimals(h)
AdsText(h) == IF h = 0 THEN "0" ELSE FormatTwoDecimals(h)

\* 008: the cells ai_ads can be, for ads = _as_float_or_none(base.get("ads"))
AdsCells008(ads) ==
    IF ads = <<>> THEN {Txt("")}
    ELSE {Txt(AdsText(h)) : h \in Round2(ads[1])}

\* returns_sum of a SKU carried by two items
ReturnsSumOfTwo(r1, r2) ==
    IF r1 = <<>> THEN r2
    ELSE IF r2 = <<>> THEN r1 ELSE <<r1[1] + r2[1]>>

\* ---- the items projected ----
\* Largest ads rate, in thousandths, of the dense range around zero.
MaxAds == 16

\* A field the API did not send.
NoItem ==
    [days |-> <<>>, idc |-> <<>>, rts |-> <<>>, rts2 |-> <<>>, ads |-> <<>>,
     grade |-> <<>>, acquiring |-> <<>>, msp |-> <<>>, pct |-> <<>>,
     color |-> <<>>, value |-> <<>>]

Opt(S) == {<<>>} \cup {<<x>> : x \in S}

\* Known and unknown codes of the three tables, and the empty code.
GradeInputs ==
    Opt({"", "GRADES_GREEN", "DEFICIT", "TURNOVER_GRADE_NONE", "GREEN",
         "BLUE"})

CountInputs == Opt({0, 2000})
ReturnsInputs == Opt({0, 1000, -1000})
AdsInputs == Opt((-MaxAds..MaxAds) \cup {1234, -2675, 999996})
CeilInputs == Opt({0, 1, -1, 999, -999, 1000, -1000, 2100, -2100, 3000})
PriceInputs == Opt({0, 1500, 20000})
PercentInputs == Opt({0, 5000, 41500})

CellFns == {"build_export_rows", "update_google_sheets",
            "prepare_data_for_sheet", "process_value"}

CellItems(f) ==
    CASE f = "build_export_rows" ->
            {[NoItem EXCEPT !.days = d, !.idc = i, !.rts = r, !.rts2 = r2,
                            !.ads = a, !.grade = g] :
                d \in CountInputs, i \in CountInputs, r \in ReturnsInputs,
                r2 \in ReturnsInputs, a \in AdsInputs, g \in GradeInputs}
      [] f = "update_google_sheets" ->
            {[NoItem EXCEPT !.idc = i, !.grade = g] :
                i \in CeilInputs, g \in GradeInputs}
      [] f = "prepare_data_for_sheet" ->
            {[NoItem EXCEPT !.acquiring = a, !.msp = m, !.pct = q,
                            !.color = c] :
                a \in CeilInputs, m \in PriceInputs, q \in PercentInputs,
                c \in GradeInputs}
      [] f = "process_value" ->
            {[NoItem EXCEPT !.value = v] : v \in CeilInputs}

CellFrame == UNCHANGED <<fetchVars, chunkVars, alignVars, configVars,
                         sheetVars, orchVars, furtherVars, cellFn, cellItem>>

InitCell ==
    /\ IdleFetch
    /\ IdleChunk
    /\ IdleAlign
    /\ IdleConfig
    /\ IdleSheet
    /\ IdleOrch
    /\ IdleFurther
    /\ cellFn \in CellFns
    /\ cellItem \in CellItems(cellFn)
    /\ cellRow = <<>>

\* 008 build_export_rows: the cells AD..AI of a SKU whose first item is
\* cellItem and whose second item only carries a returns count (rts2).
BuildExportRowsCellsStep ==
    /\ cellFn = "build_export_rows" /\ cellRow = <<>>
    /\ \E ai_ads \in AdsCells008(cellItem.ads) :
        cellRow' = <<[
            ad_days |-> ToSheetCell(AsIntOrNone(cellItem.days)),
            ae_idc |-> ToSheetCell(AsIntOrNone(cellItem.idc)),
            af_returns |-> ToSheetCellBlankIfZero(
                ReturnsSumOfTwo(AsIntOrNone(cellItem.rts),
                                AsIntOrNone(cellItem.rts2))),
            ag_grade_ru |-> TextCell(TurnoverGradeRu(cellItem.grade)),
            ah_grade_desc |-> TextCell(DescribeTurnoverGrade(cellItem.grade)),
            ai_ads |-> ai_ads]>>
    /\ CellFrame

\* 005 update_google_sheets: the cells AK and AL of a matched item.
RowData005CellsStep ==
    /\ cellFn = "update_google_sheets" /\ cellRow = <<>>
    /\ cellRow' = <<[ak_idc |-> IdcCell005(cellItem.idc),
                     al_grade |-> TranslateGrade005(cellItem.grade)]>>
    /\ CellFrame

\* 013 prepare_data_for_sheet: acquiring, dr_value and color_index of a
\* found product.
PrepareRow013CellsStep ==
    /\ cellFn = "prepare_data_for_sheet" /\ cellRow = <<>>
    /\ cellRow' = <<[acquiring |-> Num(Acquiring013(cellItem.acquiring)),
                     dr_value |-> Num(DrValue013(cellItem.msp, cellItem.pct)),
                     color_index |-> ColorIndex013(cellItem.color)]>>
    /\ CellFrame

\* 004 process_value
ProcessValueStep ==
    /\ cellFn = "process_value" /\ cellRow = <<>>
    /\ cellRow' = <<[value |-> ProcessValue(cellItem.value)]>>
    /\ CellFrame

NextCell ==
    \/ BuildExportRowsCellsStep
    \/ RowData005CellsStep
    \/ PrepareRow013CellsStep
    \/ ProcessValueStep

SpecCell == InitCell /\ [][NextCell]_vars

\* The code of the projected item is no key of the table of its script.
UnknownCode(code, table) == code # <<>> /\ code[1] \notin DOMAIN table

\* C14: a code absent from the mapping table is written as the empty
\* string, never as a code string.
C14_UnknownCodeIsBlank ==
    cellRow # <<>> =>
        /\ (cellFn = "update_google_sheets"
            /\ UnknownCode(cellItem.grade, TURNOVER_GRADE_TRANSLATION)
                => cellRow[1].al_grade = Txt(""))
        /\ (cellFn = "build_export_rows"
            /\ UnknownCode(cellItem.grade, TURNOVER_GRADE_RU)
                => /\ cellRow[1].ag_grade_ru = Txt("")
                   /\ cellRow[1].ah_grade_desc = Txt(""))
        /\ (cellFn = "prepare_data_for_sheet"
            /\ UnknownCode(cellItem.color, color_index_mapping)
                => cellRow[1].color_index = Txt(""))

\* The returns-to-seller total of the projected SKU, in units; 0 when no
\* item carries a count.
ReturnsTotal ==
    (IF cellItem.rts = <<>> THEN 0 ELSE cellItem.rts[1] \div Milli)
    + (IF cellItem.rts2 = <<>> THEN 0 ELSE cellItem.rts2[1] \div Milli)

\* C15: zero is blank per column: in build_export_rows a returns total of 0
\* (or no returns value) gives an empty cell and any other total its decimal
\* text, days without sales 0 and idc 0 give "0", and a missing value gives
\* an empty cell in all three columns.
C15_ZeroBlankOnlyForReturns ==
    (cellFn = "build_export_rows" /\ cellRow # <<>>) =>
        /\ (cellItem.days = <<0>> => cellRow[1].ad_days = Txt("0"))
        /\ (cellItem.idc = <<0>> => cellRow[1].ae_idc = Txt("0"))
        /\ (cellItem.days = <<>> => cellRow[1].ad_days = Txt(""))
        /\ (cellItem.idc = <<>> => cellRow[1].ae_idc = Txt(""))
        /\ (ReturnsTotal = 0 => cellRow[1].af_returns = Txt(""))
        /\ (ReturnsTotal # 0 =>
                cellRow[1].af_returns = Txt(ToString(ReturnsTotal)))

C15_Witness ==
    /\ cellFn = "build_export_rows" /\ cellRow # <<>>
    /\ cellItem.days = <<0>> /\ cellItem.idc = <<0>>
    /\ cellItem.rts = <<1000>> /\ cellItem.rts2 = <<-1000>>
    /\ cellRow[1].ad_days = Txt("0") /\ cellRow[1].af_returns = Txt("")

\* n is the ceiling of p / q: the least integer not below it.
IsCeilingOf(n, p, q) == n * q >= p /\ (n - 1) * q < p

\* C16: ceiling rounding is toward positive infinity: the idc cell of 005,
\* acquiring and dr_value of 013 and process_value of 004 give the least
\* integer not below the value (3 for 2.1, -2 for -2.1, the value itself for
\* an integer); process_value gives no value for zero.
C16_CeilingTowardPositiveInfinity ==
    cellRow # <<>> =>
        /\ (cellFn = "update_google_sheets" /\ cellItem.idc # <<>> =>
                /\ DOMAIN cellRow[1].ak_idc = {"num"}
                /\ IsCeilingOf(cellRow[1].ak_idc.num, cellItem.idc[1], Milli))
        /\ (cellFn = "update_google_sheets" =>
                /\ (cellItem.idc = <<2100>> => cellRow[1].ak_idc = Num(3))
                /\ (cellItem.idc = <<-2100>> => cellRow[1].ak_idc = Num(-2))
                /\ (cellItem.idc = <<0>> => cellRow[1].ak_idc = Num(0)))
        /\ (cellFn = "prepare_data_for_sheet" =>
                /\ IsCeilingOf(cellRow[1].acquiring.num,
                       IF cellItem.acquiring = <<>> THEN 0
                       ELSE cellItem.acquiring[1], Milli)
                /\ IF cellItem.msp \in {<<>>, <<0>>}
                      \/ cellItem.pct \in {<<>>, <<0>>}
                   THEN cellRow[1].dr_value = Num(0)
                   ELSE IsCeilingOf(cellRow[1].dr_value.num,
                            cellItem.msp[1] * cellItem.pct[1],
                            Milli * Milli * 100))
        /\ (cellFn = "process_value" =>
                IF cellItem.value \in {<<>>, <<0>>}
                THEN cellRow[1].value = <<>>
                ELSE /\ Len(cellRow[1].value) = 1
                     /\ IsCeilingOf(cellRow[1].value[1], cellItem.value[1],
                                    Milli))

C16_Witness ==
    /\ cellFn = "update_google_sheets" /\ cellRow # <<>>
    /\ cellItem.idc = <<-2100>> /\ cellRow[1].ak_idc = Num(-2)

\* Reading a decimal text back.
DigitOf(c) == CHOOSE d \in 0..9 : ToString(d) = c
IsDigits(t) ==
    Len(t) > 0 /\ \A j \in 1..Len(t) :
        \E d \in 0..9 : ToString(d) = SubSeq(t, j, j)
RECURSIVE ParseNat(_)
ParseNat(t) ==
    IF Len(t) = 0 THEN 0
    ELSE 10 * ParseNat(SubSeq(t, 1, Len(t) - 1))
         + DigitOf(SubSeq(t, Len(t), Len(t)))

\* t is a number with exactly two decimals and h is that number in
\* hundredths.
IsTwoDecimalsOf(t, h) ==
    LET neg == Len(t) > 0 /\ SubSeq(t, 1, 1) = "-"
        u == IF neg THEN SubSeq(t, 2, Len(t)) ELSE t
    IN  /\ Len(u) >= 4
        /\ SubSeq(u, Len(u) - 2, Len(u) - 2) = "."
        /\ IsDigits(SubSeq(u, 1, Len(u) - 3))
        /\ IsDigits(SubSeq(u, Len(u) - 1, Len(u)))
        /\ h = (IF neg THEN -1 ELSE 1)
                * (100 * ParseNat(SubSeq(u, 1, Len(u) - 3))
                   + ParseNat(SubSeq(u, Len(u) - 1, Len(u))))

\* C17: the ads cell of build_export_rows is empty for a missing value,
\* "0" for a value that rounds to zero (a tiny negative one included), never
\* "0.00" or "-0.00", and otherwise the value rounded to the nearest
\* hundredth and written with exactly two decimals.
C17_AdsTwoDecimalsZeroAsZero ==
    (cellFn = "build_export_rows" /\ cellRow # <<>>) =>
        LET t == cellRow[1].ai_ads.txt IN
        IF cellItem.ads = <<>> THEN t = ""
        ELSE LET m == cellItem.ads[1] IN
             /\ t \notin {"", "0.00", "-0.00"}
             /\ (m > -5 /\ m < 5 => t = "0")
             /\ (t = "0" => m >= -5 /\ m <= 5)
             /\ (t # "0" =>
                    \E h \in ((m \div 10) - 1)..((m \div 10) + 1) :
                        /\ h # 0
                        /\ 10 * h - m <= 5 /\ m - 10 * h <= 5
                        /\ IsTwoDecimalsOf(t, h))

C17_Witness ==
    /\ cellFn = "build_export_rows" /\ cellRow # <<>>
    /\ cellItem.ads = <<-4>> /\ cellRow[1].ai_ads = Txt("0")

(***************************************************************************)
(* The orchestrator ALL_START / ALL_START_LITE: for each entry of the      *)
(* list, subprocess.run of the file if it exists, then time.sleep(10)      *)
(* unless the entry equals the last one.                                    *)
(***************************************************************************)
\* Longest list of script files.
MaxScripts == 3
\* time.sleep(10)
OrchDelay == 10

ScriptFiles == {"(1)001.Product_offer_id.py", "(1)002.Tovar_info.py",
                "(1)003.Content_rating.py"}

\* The lists of the two orchestrators name every file once.
ScriptLists ==
    {l \in SeqsUpTo(ScriptFiles, MaxScripts) :
        /\ l # <<>>
        /\ \A j, k \in 1..Len(l) : j # k => l[j] # l[k]}

\* `if script != scripts[-1]`
SleepsAfterEvery(l, entry) == TRUE
SleepsAfter(l, entry) == entry # l[Len(l)]

Logged(ev, j, secs) ==
    orchLog' = Append(orchLog, [ev |-> ev, i |-> j, secs |-> secs])

OrchFrame == UNCHANGED <<fetchVars, chunkVars, alignVars, configVars,
                         sheetVars, cellVars, furtherVars, scripts>>

InitOrch ==
    /\ IdleFetch
    /\ IdleChunk
    /\ IdleAlign
    /\ IdleConfig
    /\ IdleSheet
    /\ IdleCell
    /\ IdleFurther
    /\ scripts \in ScriptLists
    /\ orchI = 1
    /\ orchPc = "launch"
    /\ orchLog = <<>>
    /\ orchFailed = {}

\* os.path.exists(script): the child is started, or the entry is skipped.
LaunchStep ==
    /\ orchPc = "launch"
    /\ \E exists \in BOOLEAN :
        IF exists
        THEN Logged("launch", orchI, 0) /\ orchPc' = "wait"
        ELSE Logged("skip", orchI, 0) /\ orchPc' = "sleep"
    /\ UNCHANGED <<orchI, orchFailed>>
    /\ OrchFrame

\* try: subprocess.run(..., check=True) / except: -- whatever is raised, a
\* non-zero exit status included, is caught and printed, and the loop body
\* goes on.
AfterChildExitRaises(ok) == IF ok THEN "sleep" ELSE "raised"
AfterChildExit(ok) == "sleep"

\* subprocess.run returns when the child has terminated.
ChildExitStep ==
    /\ orchPc = "wait"
    /\ Logged("exit", orchI, 0)
    /\ \E ok \in BOOLEAN :
        /\ orchFailed' = IF ok THEN orchFailed ELSE orchFailed \cup {orchI}
        /\ orchPc' = AfterChildExit(ok)
    /\ UNCHANGED orchI
    /\ OrchFrame

\* The end of the loop body: the sleep, and the next entry.
SleepStep ==
    /\ orchPc = "sleep"
    /\ IF SleepsAfter(scripts, scripts[orchI])
       THEN Logged("sleep", orchI, OrchDelay)
       ELSE UNCHANGED orchLog
    /\ IF orchI < Len(scripts)
       THEN orchI' = orchI + 1 /\ orchPc' = "launch"
       ELSE orchPc' = "done" /\ UNCHANGED orchI
    /\ UNCHANGED orchFailed
    /\ OrchFrame

NextOrch ==
    \/ LaunchStep
    \/ ChildExitStep
    \/ SleepStep

SpecOrch == InitOrch /\ [][NextOrch]_vars

\* The interpreter goes on with the loop, and a child that was started
\* terminates.
FairSpecOrch == SpecOrch /\ WF_vars(NextOrch)

\* The positions of the log that hold an event of entry j.
EventsOf(ev, j) ==
    {k \in 1..Len(orchLog) : orchLog[k].ev = ev /\ orchLog[k].i = j}

\* C18: the scripts run one at a time in list order: a launch is directly
\* followed by the exit of the same script, events of a later entry never
\* precede those of an earlier one, an entry that was left is followed by
\* exactly one sleep of 10 seconds unless it is the last of the list, and no
\* sleep follows the last entry.
C18_OneAtATimeTenSecondsApart ==
    orchPc # "idle" =>
        /\ \A k \in 1..Len(orchLog) :
              /\ orchLog[k].i \in 1..orchI
              /\ (k < Len(orchLog) => orchLog[k].i <= orchLog[k + 1].i)
              /\ (orchLog[k].ev = "launch" /\ k < Len(orchLog) =>
                     orchLog[k + 1] = [ev |-> "exit", i |-> orchLog[k].i,
                                       secs |-> 0])
              /\ (orchLog[k].ev = "launch" /\ k = Len(orchLog) =>
                     orchPc = "wait")
              /\ (orchLog[k].ev = "sleep" =>
                     /\ orchLog[k].secs = OrchDelay
                     /\ orchLog[k].i < Len(scripts)
                     /\ \A l \in 1..Len(orchLog) :
                            orchLog[l].i = orchLog[k].i => l <= k)
        /\ \A j \in 1..Len(scripts) :
              /\ Cardinality(EventsOf("launch", j)) <= 1
              /\ Cardinality(EventsOf("sleep", j)) =
                    (IF j < Len(scripts) /\ (j < orchI \/ orchPc = "done")
                     THEN 1 ELSE 0)

C18_Witness ==
    /\ orchPc = "done" /\ Len(scripts) = 3
    /\ Cardinality(EventsOf("launch", 1)) = 1
    /\ Cardinality(EventsOf("skip", 2)) = 1
    /\ Cardinality(EventsOf("launch", 3)) = 1
    /\ Cardinality({k \in 1..Len(orchLog) : orchLog[k].ev = "sleep"}) = 2

\* The number of times entry j was attempted: its child was started, or its
\* file was looked for and not found.
Attempts(j) ==
    Cardinality(EventsOf("launch", j)) + Cardinality(EventsOf("skip", j))

\* C28: the orchestrator attempts every script of its list exactly once and
\* always reaches the end of the list: no entry is ever attempted twice, the
\* loop ends, and at its end every entry has been attempted, whichever
\* children ended with an error and whichever files were missing.
C28_EveryScriptAttemptedOnce ==
    /\ [](\A j \in 1..Len(scripts) : Attempts(j) <= 1)
    /\ [](orchPc = "done" => \A j \in 1..Len(scripts) : Attempts(j) = 1)
    /\ <>(orchPc = "done")

C28_Witness ==
    /\ orchPc = "done" /\ Len(scripts) = 3
    /\ 1 \in orchFailed
    /\ Cardinality(EventsOf("skip", 2)) = 1
    /\ Cardinality(EventsOf("launch", 3)) = 1 /\ 3 \notin orchFailed

(***************************************************************************)
(* add_full_range_filter on its own: the range of its setBasicFilter       *)
(* request as a function of what the read of column A returns.            *)
(***************************************************************************)
\* Largest len(values[0]), column count and start_row tried.
MaxColA == 8
MaxColumns == 3
MaxStartRow == 5

\* last_row = len(values[0]) if values and values[0] else <start row>
LastRow(colA, start_row) == IF colA > 0 THEN colA ELSE start_row

\* 001: "startRowIndex": 3, "endRowIndex": end_row_index = last_row
FilterRange001(colA, columns) ==
    [startRowIndex |-> 3, endRowIndex |-> LastRow(colA, 4),
     endColumnIndex |-> columns]

\* SheetAPIService: end_row_index = max(last_row, start_row),
\* "startRowIndex": start_row - 1
FilterRangeSvc(colA, start_row, columns) ==
    LET last_row == LastRow(colA, start_row)
    IN  [startRowIndex |-> start_row - 1,
         endRowIndex |-> IF last_row > start_row THEN last_row ELSE start_row,
         endColumnIndex |-> columns]

FilterFrame == UNCHANGED <<fetchVars, chunkVars, alignVars, configVars,
                           sheetVars, cellVars, orchVars, totalsVars,
                           monthVars, lastYearVars, fltImpl, fltColA,
                           fltStartRow, fltColumns>>

InitFilter ==
    /\ IdleFetch
    /\ IdleChunk
    /\ IdleAlign
    /\ IdleConfig
    /\ IdleSheet
    /\ IdleCell
    /\ IdleOrch
    /\ IdleTotals
    /\ IdleMonths
    /\ IdleLastYear
    /\ fltImpl \in {"001", "svc"}
    /\ fltColA \in 0..MaxColA
    /\ fltStartRow \in (IF fltImpl = "001" THEN {4} ELSE 1..MaxStartRow)
    /\ fltColumns \in 1..MaxColumns
    /\ fltPc = "call"
    /\ fltReq = <<>>

\* 001 add_full_range_filter: any failure is printed and None is returned.
AddFullRangeFilter001Call ==
    /\ fltImpl = "001" /\ fltPc = "call"
    /\ \E readOk \in BOOLEAN :
        /\ fltReq' = IF readOk THEN <<FilterRange001(fltColA, fltColumns)>>
                     ELSE <<>>
    /\ fltPc' = "done"
    /\ FilterFrame

\* SheetAPIService.add_full_range_filter: a failed read or a refused request
\* raises RuntimeError.
AddFullRangeFilterSvcCall ==
    /\ fltImpl = "svc" /\ fltPc = "call"
    /\ \E readOk, ok \in BOOLEAN :
        /\ fltReq' = IF readOk
                     THEN <<FilterRangeSvc(fltColA, fltStartRow, fltColumns)>>
                     ELSE <<>>
        /\ fltPc' = IF readOk /\ ok THEN "done" ELSE "raised"
    /\ FilterFrame

NextFilter ==
    \/ AddFullRangeFilter001Call
    \/ AddFullRangeFilterSvcCall

SpecFilter == InitFilter /\ [][NextFilter]_vars

\* C22: add_full_range_filter never requests an inverted or empty range:
\* whatever the number of filled cells of column A is (none included), the
\* endRowIndex of the request is greater than its startRowIndex.
C22_FilterRangeNeverEmpty ==
    fltReq # <<>> => fltReq[1].endRowIndex > fltReq[1].startRowIndex

(***************************************************************************)
(* 007: collect_sku_data and update_sheet, the quantities per status and   *)
(* their totals in column T and in row 3.                                  *)
(***************************************************************************)
\* Longest column B, most bundle items, largest quantity, and the number of
\* statuses of STATUS_TO_COLUMN that occur in the orders tried.
MaxSkuRows == 2
MaxBundleItems == 2
MaxQty == 1
MaxStatuses == 2

\* STATUS_TO_COLUMN in the order of its entries.
StatusOrder == <<"ORDER_STATE_DATA_FILLING", "ORDER_STATE_READY_TO_SUPPLY",
                 "ORDER_STATE_ACCEPTED_AT_SUPPLY_WAREHOUSE",
                 "ORDER_STATE_IN_TRANSIT",
                 "ORDER_STATE_ACCEPTANCE_AT_STORAGE_WAREHOUSE",
                 "ORDER_STATE_REPORTS_CONFIRMATION_AWAITING">>
StatusColumns == <<"W", "X", "Y", "Z", "AA", "AB">>

STATUS_TO_COLUMN ==
    [st \in {StatusOrder[k] : k \in 1..Len(StatusOrder)} |->
        StatusColumns[CHOOSE k \in 1..Len(StatusOrder) : StatusOrder[k] = st]]

\* The order states tried: the first of STATUS_TO_COLUMN and one outside it.
OrderStates ==
    {StatusOrder[k] : k \in 1..MaxStatuses} \cup {"ORDER_STATE_CANCELLED"}

BundleItems == [state : OrderStates, sku : {<<"1">>, <<"2">>},
                quantity : 0..MaxQty]

TotalsCells == {<<>>, <<"1">>, <<"2">>, <<" ", "1">>}

\* The cells of the sheet that update_sheet may touch, and one row below.
TotalsRows == {3} \cup 5..(5 + MaxSkuRows)
TotalsCols == {"T"} \cup {StatusColumns[k] : k \in 1..Len(StatusColumns)}
\* What a cell holds before the run.
Stale == <<99>>

\* get_sku_list: [str(sku).strip() for sku in sku_list if sku]
GetSkuList(col) == StripAll(SelectSeq(col, LAMBDA c : c # <<>>))

\* collect_sku_data: the orders of a state outside STATUS_TO_COLUMN are
\* skipped, the quantities of the others are added up per sku and status.
RECURSIVE CollectSkuData(_)
CollectSkuData(its) ==
    IF its = <<>> THEN <<>>
    ELSE LET sofar == CollectSkuData(SubSeq(its, 1, Len(its) - 1))
             it == its[Len(its)]
         IN  IF it.state \notin DOMAIN STATUS_TO_COLUMN THEN sofar
             ELSE IF it.sku \notin DOMAIN sofar
                  THEN sofar @@ (it.sku :> (it.state :> it.quantity))
             ELSE IF it.state \in DOMAIN sofar[it.sku]
                  THEN [sofar EXCEPT ![it.sku][it.state] = @ + it.quantity]
             ELSE [sofar EXCEPT ![it.sku] = @ @@ (it.state :> it.quantity)]

\* counts = sku_counts.get(sku, {})
CountsOf(counts_by_sku, sku) ==
    IF sku \in DOMAIN counts_by_sku THEN counts_by_sku[sku] ELSE <<>>

\* row_total after the first k statuses of STATUS_TO_COLUMN
RECURSIVE RowTotal(_, _)
RowTotal(counts, k) ==
    IF k = 0 THEN 0
    ELSE RowTotal(counts, k - 1)
         + (IF StatusOrder[k] \in DOMAIN counts THEN counts[StatusOrder[k]]
            ELSE 0)

\* column_sums[col] after the first j rows; col is the column of status k
RECURSIVE ColumnSum(_, _, _, _)
ColumnSum(counts_by_sku, sku_list, k, j) ==
    IF j = 0 THEN 0
    ELSE LET counts == CountsOf(counts_by_sku, sku_list[j])
         IN  ColumnSum(counts_by_sku, sku_list, k, j - 1)
             + (IF StatusOrder[k] \in DOMAIN counts
                THEN counts[StatusOrder[k]] ELSE 0)

\* `if row_total > 0` and `if total != 0`
WritesRowTotal(row_total) == row_total > 0
WritesColumnTotalAlways(total) == TRUE
WritesColumnTotal(total) == total # 0

\* The updates of update_sheet as the cells they set: <<>> is no update.
UpdateOf(counts_by_sku, sku_list, col, row) ==
    LET k == CHOOSE x \in 0..Len(StatusColumns) :
                 (x = 0 /\ col = "T") \/ (x > 0 /\ StatusColumns[x] = col)
    IN  IF row = 3
        THEN IF k = 0 THEN <<>>
             ELSE LET total == ColumnSum(counts_by_sku, sku_list, k,
                                         Len(sku_list))
                  IN  IF WritesColumnTotal(total) THEN <<total>> ELSE <<>>
        ELSE IF row - 4 \notin 1..Len(sku_list) THEN <<>>
        ELSE LET counts == CountsOf(counts_by_sku, sku_list[row - 4])
             IN  IF k = 0
                 THEN LET row_total == RowTotal(counts, Len(StatusOrder))
                      IN  IF WritesRowTotal(row_total) THEN <<row_total>>
                          ELSE <<>>
                 ELSE IF StatusOrder[k] \in DOMAIN counts
                      THEN <<counts[StatusOrder[k]]>> ELSE <<>>

\* batch_clear of W3:AB3, T5:T{last_row} and W5:AB{last_row}
Cleared(last_row, col, row) ==
    \/ row = 3 /\ col # "T"
    \/ row \in 5..last_row

TotalsFrame == UNCHANGED <<fetchVars, chunkVars, alignVars, configVars,
                           sheetVars, cellVars, orchVars, filterVars,
                           monthVars, lastYearVars, tKeyCol, tItems>>

InitTotals ==
    /\ IdleFetch
    /\ IdleChunk
    /\ IdleAlign
    /\ IdleConfig
    /\ IdleSheet
    /\ IdleCell
    /\ IdleOrch
    /\ IdleFilter
    /\ IdleMonths
    /\ IdleLastYear
    /\ tKeyCol \in {c \in SeqsUpTo(TotalsCells, MaxSkuRows) :
                       c = <<>> \/ c[Len(c)] # <<>>}
    /\ tItems \in SeqsUpTo(BundleItems, MaxBundleItems)
    /\ tPc = "collect"
    /\ sku_counts = <<>>
    /\ tSheet = [c \in TotalsCols |-> [r \in TotalsRows |-> Stale]]

\* run: collect_sku_data, and the return when nothing was collected.
CollectSkuDataStep ==
    /\ tPc = "collect"
    /\ sku_counts' = CollectSkuData(tItems)
    /\ tPc' = IF DOMAIN sku_counts' = {} THEN "done" ELSE "update"
    /\ UNCHANGED tSheet
    /\ TotalsFrame

\* update_sheet: nothing without SKUs; else the batch_clear, then one
\* batch_update when there is an update.  Either call may be refused.
UpdateSheetStep ==
    /\ tPc = "update"
    /\ LET sku_list == GetSkuList(tKeyCol)
           last_row == Len(sku_list) + 4
           cleared == [c \in TotalsCols |-> [r \in TotalsRows |->
                         IF Cleared(last_row, c, r) THEN <<>>
                         ELSE tSheet[c][r]]]
           updated == [c \in TotalsCols |-> [r \in TotalsRows |->
                         IF UpdateOf(sku_counts, sku_list, c, r) # <<>>
                         THEN UpdateOf(sku_counts, sku_list, c, r)
                         ELSE cleared[c][r]]]
       IN  IF sku_list = <<>>
           THEN tPc' = "done" /\ UNCHANGED tSheet
           ELSE \E clearOk, ok \in BOOLEAN :
                  /\ tSheet' = IF ~clearOk THEN tSheet
                               ELSE IF ok THEN updated ELSE cleared
                  /\ tPc' = IF clearOk /\ (ok \/ updated = cleared)
                            THEN "done" ELSE "raised"
    /\ UNCHANGED sku_counts
    /\ TotalsFrame

NextTotals ==
    \/ CollectSkuDataStep
    \/ UpdateSheetStep

SpecTotals == InitTotals /\ [][NextTotals]_vars

\* What a cell counts for in a sum: an empty cell counts for nothing.
CellNum(c, r) == IF tSheet[c][r] = <<>> THEN 0 ELSE tSheet[c][r][1]

\* The sum of the first k of the columns W..AB in row r of the sheet.
RECURSIVE SumOfRow(_, _)
SumOfRow(r, k) ==
    IF k = 0 THEN 0 ELSE SumOfRow(r, k - 1) + CellNum(StatusColumns[k], r)

\* The sum of column c over the first j SKU rows of the sheet.
RECURSIVE SumOfColumn(_, _)
SumOfColumn(c, j) ==
    IF j = 0 THEN 0 ELSE SumOfColumn(c, j - 1) + CellNum(c, 4 + j)

\* The number of SKU rows update_sheet writes.
SkuRows == Cardinality({j \in 1..Len(tKeyCol) : tKeyCol[j] # <<>>})

SheetUpdated == tPc = "done" /\ DOMAIN sku_counts # {} /\ SkuRows > 0

\* C23: the totals update_sheet of 007 writes agree with the cells it
\* writes: in every SKU row the value in column T is the sum of the values
\* in W..AB of that row, the value in row 3 of each column W..AB is the sum
\* of that column over the SKU rows, and a total of zero is not written,
\* its cell stays cleared.
C23_TotalsAgreeWithCells ==
    SheetUpdated =>
        /\ \A r \in 5..(4 + SkuRows) :
              LET total == SumOfRow(r, Len(StatusColumns))
              IN  tSheet["T"][r] = IF total = 0 THEN <<>> ELSE <<total>>
        /\ \A k \in 1..Len(StatusColumns) :
              LET total == SumOfColumn(StatusColumns[k], SkuRows)
              IN  tSheet[StatusColumns[k]][3] =
                      IF total = 0 THEN <<>> ELSE <<total>>

C23_Witness ==
    /\ SheetUpdated
    /\ \E r \in 5..(4 + SkuRows) :
          tSheet["W"][r] = <<0>> /\ tSheet["T"][r] = <<>>
    /\ tSheet["W"][3] = <<>>
    /\ \E r \in 5..(4 + SkuRows) :
          tSheet["X"][r] = <<1>> /\ tSheet["T"][r] = <<1>>
    /\ tSheet["X"][3] = <<1>>

(***************************************************************************)
(* 009 get_month_ranges: the fetch window cut into intervals of at most    *)
(* one month.  A datetime is [y, m, d, t]: year, month, day and the time   *)
(* of day, which relativedelta(months=1) leaves as it is.                  *)
(***************************************************************************)
\* The first year tried, the number of years, the latest time of day, and
\* the longest window in months (main asks for 170 days).
FirstYear == 2023
MaxYears == 2
MaxTick == 1
MaxSpan == 6

IsLeap(y) == (y % 4 = 0 /\ y % 100 # 0) \/ y % 400 = 0

DaysInMonth(y, m) ==
    IF m = 2 THEN (IF IsLeap(y) THEN 29 ELSE 28)
    ELSE IF m \in {4, 6, 9, 11} THEN 30 ELSE 31

\* The days tried: the first of a month and the days a shorter month lacks.
DayChoices == {1, 28, 29, 30, 31}

DateTimes ==
    {dt \in [y : FirstYear..(FirstYear + MaxYears - 1), m : 1..12,
             d : DayChoices, t : 0..MaxTick] : dt.d <= DaysInMonth(dt.y, dt.m)}

\* The months since year 0 of a datetime.
MonthIndex(dt) == dt.y * 12 + (dt.m - 1)

\* datetime comparison
Before(a, b) ==
    \/ MonthIndex(a) < MonthIndex(b)
    \/ MonthIndex(a) = MonthIndex(b) /\ a.d < b.d
    \/ MonthIndex(a) = MonthIndex(b) /\ a.d = b.d /\ a.t < b.t

\* dt + relativedelta(months=1): the next month, the day cut down to the
\* last day of that month.
AddMonth(dt) ==
    LET y2 == (MonthIndex(dt) + 1) \div 12
        m2 == ((MonthIndex(dt) + 1) % 12) + 1
    IN  [y |-> y2, m |-> m2,
         d |-> IF dt.d > DaysInMonth(y2, m2) THEN DaysInMonth(y2, m2) ELSE dt.d,
         t |-> dt.t]

\* min(next_month, end_date)
MinDateTakesFirst(a, b) == a
MinDate(a, b) == IF Before(b, a) THEN b ELSE a

MonthsFrame == UNCHANGED <<fetchVars, chunkVars, alignVars, configVars,
                           sheetVars, cellVars, orchVars, filterVars,
                           totalsVars, lastYearVars, start_date, end_date>>

InitMonths ==
    /\ IdleFetch
    /\ IdleChunk
    /\ IdleAlign
    /\ IdleConfig
    /\ IdleSheet
    /\ IdleCell
    /\ IdleOrch
    /\ IdleFilter
    /\ IdleTotals
    /\ IdleLastYear
    /\ start_date \in DateTimes
    /\ end_date \in DateTimes
    /\ Before(start_date, end_date)
    /\ MonthIndex(end_date) - MonthIndex(start_date) <= MaxSpan
    /\ current = start_date
    /\ ranges = <<>>
    /\ gmPc = "loop"

\* One pass of `while current < end_date`, or the return.
GetMonthRangesStep ==
    /\ gmPc = "loop"
    /\ IF Before(current, end_date)
       THEN LET next_month == AddMonth(current) IN
            /\ ranges' = Append(ranges, <<current, MinDate(next_month, end_date)>>)
            /\ current' = next_month
            /\ UNCHANGED gmPc
       ELSE /\ gmPc' = "returned"
            /\ UNCHANGED <<current, ranges>>
    /\ MonthsFrame

NextMonths ==
    \/ GetMonthRangesStep

SpecMonths == InitMonths /\ [][NextMonths]_vars

\* The loop is not interrupted.
FairSpecMonths == SpecMonths /\ WF_vars(NextMonths)

\* An interval of at most one calendar month: it ends in the month it starts
\* in, or in the next one no later in that month than it started.
WithinOneMonth(a, b) ==
    \/ MonthIndex(b) = MonthIndex(a)
    \/ /\ MonthIndex(b) = MonthIndex(a) + 1
       /\ (b.d < a.d \/ (b.d = a.d /\ b.t <= a.t))

\* C29: get_month_ranges partitions the window: for start_date < end_date it
\* terminates and returns a non-empty list of intervals, the first starting
\* at start_date, the last ending at end_date, each ending where the next
\* starts, each non-empty and at most one calendar month long.
C29_MonthRangesPartitionWindow ==
    /\ <>(gmPc = "returned")
    /\ [](gmPc = "returned" =>
            /\ ranges # <<>>
            /\ ranges[1][1] = start_date
            /\ ranges[Len(ranges)][2] = end_date
            /\ \A k \in 1..(Len(ranges) - 1) : ranges[k][2] = ranges[k + 1][1]
            /\ \A k \in 1..Len(ranges) :
                  /\ Before(ranges[k][1], ranges[k][2])
                  /\ WithinOneMonth(ranges[k][1], ranges[k][2]))

\* A window that starts on the 31st and runs over a shorter month.
C29_Witness ==
    /\ gmPc = "returned"
    /\ start_date.d = 31 /\ start_date.m = 1
    /\ Len(ranges) >= 3
    /\ ranges[2][1].d < 31
    /\ ranges[Len(ranges)][2] # AddMonth(ranges[Len(ranges)][1])

(***************************************************************************)
(* 010 and 012: the three months of last year whose deliveries are put     *)
(* next to each other, EL / EN / EP by 010 and EM / EO / EQ by 012.        *)
(***************************************************************************)
\* dt + relativedelta(months=k)
RECURSIVE AddMonths(_, _)
AddMonths(dt, k) == IF k = 0 THEN dt ELSE AddMonth(AddMonths(dt, k - 1))

\* dt.replace(year=y) and dt.replace(day=1)
ReplaceYear(dt, y) == [dt EXCEPT !.y = y]
FirstOfMonth(dt) == [dt EXCEPT !.d = 1]

\* get_last_year_month_range(month_offset): start, and the instant `until`
\* one second after end.
GetLastYearMonthRange(now, month_offset) ==
    LET target_month ==
            ReplaceYear(AddMonths(FirstOfMonth(now), month_offset), now.y - 1)
    IN  [start |-> target_month, until |-> AddMonth(target_month)]

\* 012 main: months_needed[k] = ((now.month + k - 1) % 12) + 1
MonthNeeded(now, k) == ((now.m + k - 1) % 12) + 1

LastYearFrame == UNCHANGED <<fetchVars, chunkVars, alignVars, configVars,
                             sheetVars, cellVars, orchVars, filterVars,
                             totalsVars, monthVars, today>>

InitLastYear ==
    /\ IdleFetch
    /\ IdleChunk
    /\ IdleAlign
    /\ IdleConfig
    /\ IdleSheet
    /\ IdleCell
    /\ IdleOrch
    /\ IdleFilter
    /\ IdleTotals
    /\ IdleMonths
    /\ today \in DateTimes
    /\ periods = <<>>
    /\ months_cols = <<>>

\* 010 main: periods = {'EL': ...(1), 'EN': ...(2), 'EP': ...(3)}
Periods010Step ==
    /\ today # <<>> /\ periods = <<>>
    /\ periods' = [k \in 1..3 |-> GetLastYearMonthRange(today, k)]
    /\ UNCHANGED months_cols
    /\ LastYearFrame

\* 012 main: last_year, months_needed and months_cols
MonthsCols012Step ==
    /\ today # <<>> /\ months_cols = <<>>
    /\ months_cols' = [k \in 1..3 |->
                          [year |-> today.y - 1, month |-> MonthNeeded(today, k)]]
    /\ UNCHANGED periods
    /\ LastYearFrame

NextLastYear ==
    \/ Periods010Step
    \/ MonthsCols012Step

SpecLastYear == InitLastYear /\ [][NextLastYear]_vars

\* C30: for every current date the three last-year periods of 010 (EL, EN,
\* EP) are three consecutive calendar months in strictly increasing
\* chronological order, and they are the (year, month) pairs 012 uses for
\* EM, EO and EQ.
C30_ThreeConsecutiveLastYearMonths ==
    (periods # <<>> /\ months_cols # <<>>) =>
        /\ \A k \in 1..2 :
              MonthIndex(periods[k + 1].start) = MonthIndex(periods[k].start) + 1
        /\ \A k \in 1..3 :
              /\ periods[k].start.y = months_cols[k].year
              /\ periods[k].start.m = months_cols[k].month

====
